---------------------------- MODULE Spec2Model ----------------------------
(***************************************************************************)
(* Domain extraction pipeline of AdGuard-DNS-Divert                        *)
(* (scripts/extract_domains.py, scripts/generate_config.py).               *)
(*                                                                         *)
(* A Python str is modelled as a sequence of characters; a character is a  *)
(* one-character TLA+ string ("a", ".", "\n").  Characters that have no    *)
(* TLA+ escape are written as named tokens: "<VT>" is U+000B, "<NEL>" is   *)
(* U+0085, "<U>" stands for a non-ASCII character that is neither white    *)
(* space, a line boundary, a letter nor a digit, "<UL>" for a non-ASCII    *)
(* letter without ASCII case mapping, "<UD>" for a non-ASCII decimal digit.*)
(***************************************************************************)
EXTENDS Integers, Sequences, FiniteSets, TLC

VARIABLES
    pc,          \* position of the call being modelled
    cand,        \* argument of is_valid_domain
    verdict,     \* is_valid_domain(cand)
    verdictDot,  \* is_valid_domain("." + cand)
    content,     \* text handed to an extractor / read from a file
    parsed,      \* what yaml.safe_load makes of content
    op,          \* the operation that ran: an extractor, "file", "gc" or "ed"
    result,      \* set of domains returned by the last call
    source_id,   \* file_url argument of extract_domains_from_file
    route,       \* branch taken by extract_domains_from_file
    sources,     \* list of sources given to process_sources
    remote,      \* the document download_file gets for each source
    custom,      \* the custom domain file: [given, exists, text]
    idx,         \* loop index of process_sources
    all_domains, \* accumulator of process_sources
    raised,      \* exception that left the call, "" when none
    files,       \* the files on disk: path |-> text
    opened,      \* the paths looked up on disk, in order
    cn_domains,  \* main's cn_domains
    foreign_domains, \* main's foreign_domains
    foreign_main,    \* domain_to_quanx.main: entries of the main foreign file
    custom_domains,  \* domain_to_quanx.main: entries of the custom foreign file
    grouped_rules,   \* first value returned by read_custom_domain_dns
    domain_dns_map,  \* second value returned by read_custom_domain_dns
    outputs,     \* what has been written: file name |-> lines
    foreign_domains_list, \* generate_blacklist_config_grouped_by_5000: the sorted list
    emitted      \* the slices that its loop has taken, in order

\* the state of generate_config.main and of domain_to_quanx.main
mainVars == <<files, opened, cn_domains, foreign_domains, foreign_main, custom_domains,
              grouped_rules, domain_dns_map, outputs>>

\* the state of the batch loop of generate_blacklist_config_grouped_by_5000
batchVars == <<foreign_domains_list, emitted>>

vars == <<pc, cand, verdict, verdictDot, content, parsed, op, result, source_id,
          route, sources, remote, custom, idx, all_domains, raised, mainVars, batchVars>>

-----------------------------------------------------------------------------
(* Characters *)

LowerLetters == <<"a","b","c","d","e","f","g","h","i","j","k","l","m",
                  "n","o","p","q","r","s","t","u","v","w","x","y","z">>

UpperLetters == <<"A","B","C","D","E","F","G","H","I","J","K","L","M",
                  "N","O","P","Q","R","S","T","U","V","W","X","Y","Z">>

DigitChars == <<"0","1","2","3","4","5","6","7","8","9">>

Range(f) == {f[i] : i \in DOMAIN f}

Lower == Range(LowerLetters)

Upper == Range(UpperLetters)

Digits == Range(DigitChars)

\* [a-zA-Z0-9] of the regular expressions
Alnum == Lower \cup Upper \cup Digits

\* \d of a str pattern: every Unicode decimal digit
ReDigit == Digits \cup {"<UD>"}

\* str.isalpha(): every Unicode letter
Alpha == Lower \cup Upper \cup {"<UL>"}

\* characters removed by str.strip()
Whitespace == {" ", "\t", "\n", "\r", "\f", "<VT>", "<FS>", "<GS>", "<RS>",
               "<US>", "<NEL>", "<NBSP>", "<LS>", "<PS>"}

\* line boundaries of str.splitlines()
LineBreaks == {"\n", "\r", "\f", "<VT>", "<FS>", "<GS>", "<RS>", "<NEL>",
               "<LS>", "<PS>"}

\* line boundaries of a text file opened with universal newlines
FileLineBreaks == {"\n", "\r"}

NonAscii == {"<NEL>", "<NBSP>", "<LS>", "<PS>", "<U>", "<UL>", "<UD>"}

IndexOf(seq, c) == CHOOSE i \in DOMAIN seq : seq[i] = c

UpperChar(c) == IF c \in Lower THEN UpperLetters[IndexOf(LowerLetters, c)] ELSE c

LowerChar(c) == IF c \in Upper THEN LowerLetters[IndexOf(UpperLetters, c)] ELSE c

-----------------------------------------------------------------------------
(* str methods *)

ToUpper(s) == [i \in DOMAIN s |-> UpperChar(s[i])]

ToLower(s) == [i \in DOMAIN s |-> LowerChar(s[i])]

StartsWith(s, p) == Len(s) >= Len(p) /\ SubSeq(s, 1, Len(p)) = p

EndsWith(s, p) == Len(s) >= Len(p) /\ SubSeq(s, Len(s) - Len(p) + 1, Len(s)) = p

\* p in s
Contains(s, p) == \E i \in 1..(Len(s) - Len(p) + 1) : SubSeq(s, i, i + Len(p) - 1) = p

\* s[n:]
DropFirst(s, n) == SubSeq(s, n + 1, Len(s))

\* the characters a..b of s that exist (a slice never fails)
Slice(s, a, b) == IF a > Len(s) THEN <<>> ELSE SubSeq(s, a, IF b > Len(s) THEN Len(s) ELSE b)

Min(S) == CHOOSE x \in S : \A y \in S : x <= y

Max(S) == CHOOSE x \in S : \A y \in S : x >= y

\* the k-th smallest element of a set of numbers
Kth(S, k) == CHOOSE x \in S : Cardinality({y \in S : y < x}) = k - 1

\* s.strip()
Strip(s) ==
    LET keep == {i \in DOMAIN s : s[i] \notin Whitespace} IN
    IF keep = {} THEN <<>> ELSE SubSeq(s, Min(keep), Max(keep))

\* the lines of s for a set of line boundaries: "\r\n" is one boundary, and
\* the text after the last boundary is a line when it is not empty
LinesOf(s, breaks) ==
    LET T == {i \in DOMAIN s : s[i] \in breaks /\ ~(s[i] = "\n" /\ i > 1 /\ s[i - 1] = "\r")}
        n == Cardinality(T)
        after(p) == IF s[p] = "\r" /\ p < Len(s) /\ s[p + 1] = "\n" THEN p + 2 ELSE p + 1
        start(k) == IF k = 1 THEN 1 ELSE after(Kth(T, k - 1))
        stop(k) == IF k <= n THEN Kth(T, k) - 1 ELSE Len(s)
        m == IF start(n + 1) <= Len(s) THEN n + 1 ELSE n
    IN [k \in 1..m |-> SubSeq(s, start(k), stop(k))]

\* s.splitlines()
SplitLines(s) == LinesOf(s, LineBreaks)

\* "for line in f" on a text file
FileLines(s) == LinesOf(s, FileLineBreaks)

\* s.split(sep) for a one-character separator
Split(s, sep) ==
    LET T == {i \in DOMAIN s : s[i] = sep}
        n == Cardinality(T)
        start(k) == IF k = 1 THEN 1 ELSE Kth(T, k - 1) + 1
        stop(k) == IF k <= n THEN Kth(T, k) - 1 ELSE Len(s)
    IN [k \in 1..(n + 1) |-> SubSeq(s, start(k), stop(k))]

\* sep.join(parts)
RECURSIVE Join(_, _)
Join(parts, sep) ==
    IF parts = <<>> THEN <<>>
    ELSE IF Len(parts) = 1 THEN parts[1]
    ELSE parts[1] \o sep \o Join(Tail(parts), sep)

-----------------------------------------------------------------------------
(* Regular expressions of extract_domains.py *)

\* the last index of the run of characters of set that starts at s[i]
\* (i - 1 when s[i] is not in set)
RunEnd(s, i, set) ==
    LET bad == {k \in i..Len(s) : s[k] \notin set} IN
    IF bad = {} THEN Len(s) ELSE Min(bad) - 1

\* end of the match of  [a-zA-Z0-9][-a-zA-Z0-9]*(\.[a-zA-Z0-9][-a-zA-Z0-9]*)+
\* at s[i]; 0 when there is none.  A label is a maximal run of [-a-zA-Z0-9]
\* (the character after it must be "."), so the greedy match is the only
\* one: it runs over [-.a-zA-Z0-9] and stops before the first "." that no
\* [a-zA-Z0-9] follows; it needs s[i] in [a-zA-Z0-9] and one "." inside.
DomainEnd(s, i) ==
    IF i > Len(s) \/ i < 1 THEN 0
    ELSE IF s[i] \notin Alnum THEN 0
    ELSE LET r == RunEnd(s, i, Alnum \cup {"-", "."})
             stops == {p \in i..r : s[p] = "." /\ (p = Len(s) \/ s[IF p = Len(s) THEN p ELSE p + 1] \notin Alnum)}
             e == IF stops = {} THEN r ELSE Min(stops) - 1
         IN IF \E p \in i..e : s[p] = "." THEN e ELSE 0

\* "$" matches at the end of the string and before a final newline
AtDollar(s, e) == e = Len(s) \/ (e = Len(s) - 1 /\ s[Len(s)] = "\n")

\* DOMAIN_PATTERN.match(s)
DOMAIN_PATTERN(s) == LET e == DomainEnd(s, 1) IN e # 0 /\ AtDollar(s, e)

\* end of \d{1,3} at s[i], every length the pattern can take
DigitEnds(s, i) == {e \in i..(i + 2) : e <= Len(s) /\ \A k \in i..e : s[k] \in ReDigit}

\* ipv4_pattern.match(s) with ipv4_pattern = ^(\d{1,3}\.){3}\d{1,3}$
ipv4_pattern(s) ==
    \E e1 \in DigitEnds(s, 1) : e1 < Len(s) /\ s[e1 + 1] = "." /\
    \E e2 \in DigitEnds(s, e1 + 2) : e2 < Len(s) /\ s[e2 + 1] = "." /\
    \E e3 \in DigitEnds(s, e2 + 2) : e3 < Len(s) /\ s[e3 + 1] = "." /\
    \E e4 \in DigitEnds(s, e3 + 2) : AtDollar(s, e4)

-----------------------------------------------------------------------------
(* is_valid_domain *)

MaxDomainLen == 253

is_valid_domain_NoIPv4(domain) ==
    IF domain = <<>> \/ Len(domain) > MaxDomainLen THEN FALSE
    ELSE LET d == IF Head(domain) = "." THEN Tail(domain) ELSE domain IN
         IF EndsWith(d, <<".">>) THEN FALSE
         ELSE IF Contains(d, <<".", ".">>) THEN FALSE
         ELSE DOMAIN_PATTERN(d)

is_valid_domain(domain) ==
    IF domain = <<>> \/ Len(domain) > MaxDomainLen THEN FALSE
    ELSE LET d == IF Head(domain) = "." THEN Tail(domain) ELSE domain IN
         IF EndsWith(d, <<".">>) THEN FALSE
         ELSE IF Contains(d, <<".", ".">>) THEN FALSE
         ELSE IF ipv4_pattern(d) THEN FALSE
         ELSE DOMAIN_PATTERN(d)

\* "if is_valid_domain(x): domains.add(x)"
AddIfValid(x) == IF is_valid_domain(x) THEN {x} ELSE {}

-----------------------------------------------------------------------------
(* Pattern searches.  Each returns group(1) of the match, <<>> when the    *)
(* pattern does not match (group(1) is never empty).                       *)

S_http == <<"h","t","t","p">>

S_css == <<":","/","/">>

\* start of the domain group when https?:// matches at s[i], 0 otherwise
UrlGroupStart(s, i) ==
    IF Slice(s, i, i + 3) # S_http THEN 0
    ELSE IF Slice(s, i + 4, i + 7) = <<"s">> \o S_css THEN i + 8
    ELSE IF Slice(s, i + 4, i + 6) = S_css THEN i + 7
    ELSE 0

UrlMatchAt(s, i) == UrlGroupStart(s, i) # 0 /\ DomainEnd(s, UrlGroupStart(s, i)) # 0

\* URL_PATTERN.search(s): the leftmost match
URL_PATTERN(s) ==
    IF \E i \in 1..Len(s) : UrlMatchAt(s, i)
    THEN LET i == CHOOSE k \in 1..Len(s) :
                     UrlMatchAt(s, k) /\ \A m \in 1..(k - 1) : ~UrlMatchAt(s, m)
             g == UrlGroupStart(s, i)
         IN SubSeq(s, g, DomainEnd(s, g))
    ELSE <<>>

\* ADBLOCK_PATTERN.match(s):  ^\|\|(domain)\^
ADBLOCK_PATTERN(s) ==
    LET e == DomainEnd(s, 3) IN
    IF StartsWith(s, <<"|", "|">>) /\ e # 0 /\ e < Len(s) /\ s[e + 1] = "^"
    THEN SubSeq(s, 3, e) ELSE <<>>

S_server == <<"s","e","r","v","e","r","=","/">>

\* DNSMASQ_PATTERN.match(s):  server=/([^/]+)/
DNSMASQ_PATTERN(s) ==
    IF StartsWith(s, S_server) /\ Len(s) >= 9 /\ s[9] # "/" /\ \E j \in 10..Len(s) : s[j] = "/"
    THEN LET j == CHOOSE k \in 9..Len(s) :
                     s[k] = "/" /\ \A m \in 9..(k - 1) : s[m] # "/"
         IN SubSeq(s, 9, j - 1)
    ELSE <<>>

\* DOMAIN_PREFIX_PATTERN.match(s):  ^\.(domain)$
DOMAIN_PREFIX_PATTERN(s) ==
    LET e == DomainEnd(s, 2) IN
    IF StartsWith(s, <<".">>) /\ e # 0 /\ AtDollar(s, e) THEN SubSeq(s, 2, e) ELSE <<>>

\* end of [ ]* at s[i]: the index of the first character that is not a blank
SkipBlanks(s, i) == RunEnd(s, i, {" "}) + 1

\* .*(?:KW|kw)[,:][ ]*(domain) matched at the start of s, for a keyword kw
\* given in upper case.  ".*" is greedy and does not cross a newline, so the
\* keyword is the last one for which the rest matches.
KeywordAt(s, p, kw) ==
    /\ Slice(s, p, p + Len(kw) - 1) \in {kw, ToLower(kw)}
    /\ p + Len(kw) <= Len(s)
    /\ s[p + Len(kw)] \in {",", ":"}
    /\ DomainEnd(s, SkipBlanks(s, p + Len(kw) + 1)) # 0
    /\ \A m \in 1..(p - 1) : s[m] # "\n"

ClashMatch(s, kw) ==
    IF \E p \in 1..Len(s) : KeywordAt(s, p, kw)
    THEN LET p == CHOOSE k \in 1..Len(s) :
                     KeywordAt(s, k, kw) /\ \A m \in (k + 1)..Len(s) : ~KeywordAt(s, m, kw)
             g == SkipBlanks(s, p + Len(kw) + 1)
         IN SubSeq(s, g, DomainEnd(s, g))
    ELSE <<>>

S_DOMAIN == <<"D","O","M","A","I","N">>

S_DOMAIN_SUFFIX == <<"D","O","M","A","I","N","-","S","U","F","F","I","X">>

CLASH_DOMAIN_PATTERN(s) == ClashMatch(s, S_DOMAIN)

CLASH_DOMAIN_SUFFIX_PATTERN(s) == ClashMatch(s, S_DOMAIN_SUFFIX)

\* re.split(r'[,:]', line, 1): has the line a separator, and parts[1]
HasSep(s) == \E i \in 1..Len(s) : s[i] \in {",", ":"}

AfterSep(s) ==
    LET i == CHOOSE k \in 1..Len(s) :
                 s[k] \in {",", ":"} /\ \A m \in 1..(k - 1) : s[m] \notin {",", ":"}
    IN DropFirst(s, i)

\* the three trailing patterns shared by the YAML passes: the first pattern
\* that matches decides (each is followed by "continue")
ClashOrUrl(s) ==
    IF CLASH_DOMAIN_PATTERN(s) # <<>> THEN AddIfValid(CLASH_DOMAIN_PATTERN(s))
    ELSE IF CLASH_DOMAIN_SUFFIX_PATTERN(s) # <<>>
         THEN AddIfValid(CLASH_DOMAIN_SUFFIX_PATTERN(s))
    ELSE IF URL_PATTERN(s) # <<>> THEN AddIfValid(URL_PATTERN(s))
    ELSE {}

\* "parts = re.split(...); if len(parts) > 1: domain = parts[1].strip(); ..."
RulePart(s) == IF HasSep(s) THEN AddIfValid(Strip(AfterSep(s))) ELSE {}

\* the union of f(x) over the elements x of a sequence
UnionOver(seq, f(_)) == UNION {f(seq[i]) : i \in DOMAIN seq}

\* the stripped lines of a text
StrippedLines(text) == LET ls == SplitLines(text) IN [i \in DOMAIN ls |-> Strip(ls[i])]

-----------------------------------------------------------------------------
(* base64.b64decode(content).decode('utf-8', errors='ignore')             *)

B64Alphabet == UpperLetters \o LowerLetters \o DigitChars \o <<"+", "/">>

B64Chars == Range(B64Alphabet)

B64Val(c) == IndexOf(B64Alphabet, c) - 1

\* binascii.a2b_base64 without strict mode.  Characters outside the
\* alphabet are skipped.  quad_pos at s[i] is the number of data characters
\* before it modulo 4, pads the number of "=" seen since the last data
\* character (counted while quad_pos >= 2).  The data ends at the first "="
\* with quad_pos >= 2 and quad_pos + pads >= 4; without such a pad sequence a
\* quad left incomplete at the end is an error.  Each quad of data characters
\* gives three bytes, a final pair one byte, a final triple two.
a2b_base64(s) ==
    LET IsData(i) == s[i] \in B64Chars
        quad_pos(i) == Cardinality({k \in 1..(i - 1) : IsData(k)}) % 4
        lastData(i) == LET D == {k \in 1..(i - 1) : IsData(k)} IN IF D = {} THEN 0 ELSE Max(D)
        pads(i) == Cardinality({k \in (lastData(i) + 1)..i : s[k] = "="})
        ends == {i \in DOMAIN s : s[i] = "=" /\ quad_pos(i) >= 2 /\ quad_pos(i) + pads(i) >= 4}
        used == IF ends = {} THEN s ELSE SubSeq(s, 1, Min(ends) - 1)
        v == SelectSeq(used, LAMBDA c : c \in B64Chars)
        m == Len(v)
        nbytes == 3 * (m \div 4) + (IF m % 4 >= 2 THEN (m % 4) - 1 ELSE 0)
        byte(k) == LET q == 4 * ((k - 1) \div 3)
                       r == (k - 1) % 3
                   IN CASE r = 0 -> B64Val(v[q + 1]) * 4 + B64Val(v[q + 2]) \div 16
                        [] r = 1 -> (B64Val(v[q + 2]) % 16) * 16 + B64Val(v[q + 3]) \div 4
                        [] r = 2 -> (B64Val(v[q + 3]) % 4) * 64 + B64Val(v[q + 4])
    IN [ok |-> ends # {} \/ m % 4 = 0, bytes |-> [k \in 1..nbytes |-> byte(k)]]

\* base64.b64decode(s) for a str s: a non-ASCII character is a ValueError
b64decode(s) ==
    IF \E i \in DOMAIN s : s[i] \in NonAscii THEN [ok |-> FALSE, bytes |-> <<>>]
    ELSE a2b_base64(s)

\* the characters of the 128 ASCII codes, code 0 first
AsciiTable ==
    <<"<00>","<01>","<02>","<03>","<04>","<05>","<06>","<07>",
      "<08>","\t","\n","<VT>","\f","\r","<0E>","<0F>",
      "<10>","<11>","<12>","<13>","<14>","<15>","<16>","<17>",
      "<18>","<19>","<1A>","<1B>","<FS>","<GS>","<RS>","<US>",
      " ","!","\"","#","$","%","&","'","(",")","*","+",",","-",".","/",
      "0","1","2","3","4","5","6","7","8","9",":",";","<","=",">","?",
      "@","A","B","C","D","E","F","G","H","I","J","K","L","M","N","O",
      "P","Q","R","S","T","U","V","W","X","Y","Z","[","\\","]","^","_",
      "<60>","a","b","c","d","e","f","g","h","i","j","k","l","m","n","o",
      "p","q","r","s","t","u","v","w","x","y","z","{","|","}","~","<7F>">>

Chr(b) == AsciiTable[b + 1]

\* the character of a code point above 127, up to what the extractors can
\* tell apart: line boundary, white space, anything else
CodePointChar(cp) ==
    IF cp = 133 THEN "<NEL>"
    ELSE IF cp = 8232 THEN "<LS>"
    ELSE IF cp = 8233 THEN "<PS>"
    ELSE IF cp \in {160, 5760, 8239, 8287, 12288} \/ cp \in 8192..8202 THEN "<NBSP>"
    ELSE "<U>"

IsCont(b) == b \in 128..191

\* bytes.decode('utf-8', errors='ignore') from byte i on: an ill-formed
\* sequence is dropped up to the byte that breaks it, a truncated one drops
\* the rest of the data
RECURSIVE Utf8Ignore(_, _)
Utf8Ignore(b, i) ==
    IF i > Len(b) THEN <<>>
    ELSE LET c == b[i]
             n == Len(b)
             lo2 == IF c \in {224} THEN 160 ELSE IF c = 240 THEN 144 ELSE 128
             hi2 == IF c = 237 THEN 159 ELSE IF c = 244 THEN 143 ELSE 191
         IN
         IF c < 128 THEN <<Chr(c)>> \o Utf8Ignore(b, i + 1)
         ELSE IF c < 194 \/ c > 244 THEN Utf8Ignore(b, i + 1)
         ELSE IF i + 1 > n THEN <<>>
         ELSE IF b[i + 1] \notin lo2..hi2 THEN Utf8Ignore(b, i + 1)
         ELSE IF c < 224
              THEN <<CodePointChar((c - 192) * 64 + (b[i + 1] - 128))>>
                   \o Utf8Ignore(b, i + 2)
         ELSE IF i + 2 > n THEN <<>>
         ELSE IF ~IsCont(b[i + 2]) THEN Utf8Ignore(b, i + 2)
         ELSE IF c < 240
              THEN <<CodePointChar((c - 224) * 4096 + (b[i + 1] - 128) * 64
                                   + (b[i + 2] - 128))>>
                   \o Utf8Ignore(b, i + 3)
         ELSE IF i + 3 > n THEN <<>>
         ELSE IF ~IsCont(b[i + 3]) THEN Utf8Ignore(b, i + 3)
         ELSE <<"<U>">> \o Utf8Ignore(b, i + 4)

-----------------------------------------------------------------------------
(* urllib.parse.urlparse(url).netloc *)

\* characters allowed in a scheme
SchemeChars == Alnum \cup {"+", "-", "."}

RemoveUnsafe(s) == SelectSeq(s, LAMBDA c : c \notin {"\t", "\r", "\n"})

FirstIndex(s, set) ==
    IF \E i \in DOMAIN s : s[i] \in set
    THEN CHOOSE k \in DOMAIN s : s[k] \in set /\ \A m \in 1..(k - 1) : s[m] \notin set
    ELSE 0

\* what is left of url once the scheme is split off
AfterScheme(url) ==
    LET i == FirstIndex(url, {":"}) IN
    IF i > 1 /\ url[1] \in Lower \cup Upper /\ \A k \in 1..(i - 1) : url[k] \in SchemeChars
    THEN DropFirst(url, i) ELSE url

\* netloc of a url that starts with a letter; a netloc with an unmatched
\* bracket makes urlparse raise, which the caller swallows: <<>> stands for
\* both "no netloc" and "raised", neither adds a domain
Netloc(u) ==
    LET url == AfterScheme(RemoveUnsafe(u)) IN
    IF ~StartsWith(url, <<"/", "/">>) THEN <<>>
    ELSE LET rest == DropFirst(url, 2)
             d == FirstIndex(rest, {"/", "?", "#"})
             nl == IF d = 0 THEN rest ELSE SubSeq(rest, 1, d - 1)
         IN IF \E k \in DOMAIN nl : nl[k] \in {"[", "]"} THEN <<>> ELSE nl

-----------------------------------------------------------------------------
(* What yaml.safe_load makes of a text.  The parser is a library; its      *)
(* outcome is an input of the model:                                       *)
(*   [kind |-> "error"]              safe_load raised                      *)
(*   [kind |-> "scalar"]             None, a str, a number                 *)
(*   [kind |-> "list", items |-> s]  a sequence of items                   *)
(*   [kind |-> "dict", map |-> f]    f maps each key to its value          *)
(* An item is [isstr |-> TRUE, s |-> chars] or [isstr |-> FALSE, s |-> <<>>];*)
(* a value is [islist |-> TRUE, items |-> s] or [islist |-> FALSE,         *)
(* items |-> <<>>].                                                        *)

YamlError == [kind |-> "error", items |-> <<>>, map |-> <<>>]

YamlScalar == [kind |-> "scalar", items |-> <<>>, map |-> <<>>]

YamlList(items) == [kind |-> "list", items |-> items, map |-> <<>>]

YamlDict(map) == [kind |-> "dict", items |-> <<>>, map |-> map]

StrItem(s) == [isstr |-> TRUE, s |-> s]

NonStrItem == [isstr |-> FALSE, s |-> <<>>]

ListValue(items) == [islist |-> TRUE, items |-> items]

NonListValue == [islist |-> FALSE, items |-> <<>>]

-----------------------------------------------------------------------------
(* The extractors *)

S_COMMA == <<",">>

S_COLON == <<":">>

\* one line of the textual pass of extract_domains_from_yaml
YamlLine(line) ==
    IF line = <<>> \/ StartsWith(line, <<"#">>) THEN {}
    ELSE IF Contains(ToUpper(line), S_DOMAIN \o S_COMMA)
            \/ Contains(ToUpper(line), S_DOMAIN \o S_COLON)
         THEN RulePart(line)
    ELSE IF Contains(ToUpper(line), S_DOMAIN_SUFFIX \o S_COMMA)
            \/ Contains(ToUpper(line), S_DOMAIN_SUFFIX \o S_COLON)
         THEN RulePart(line)
    ELSE IF is_valid_domain(line) THEN {line}
    ELSE IF StartsWith(line, <<".">>) /\ is_valid_domain(Tail(line)) THEN {Tail(line)}
    ELSE ClashOrUrl(line)

YamlTextPass(text) == UnionOver(StrippedLines(text), YamlLine)

\* one item of data['payload'], data['rules'] or of a top-level list
YamlRuleItem(item) ==
    IF ~item.isstr THEN {}
    ELSE IF StartsWith(item.s, S_DOMAIN \o S_COMMA)
            \/ StartsWith(item.s, S_DOMAIN \o S_COLON)
         THEN RulePart(item.s)
    ELSE IF StartsWith(item.s, S_DOMAIN_SUFFIX \o S_COMMA)
            \/ StartsWith(item.s, S_DOMAIN_SUFFIX \o S_COLON)
         THEN RulePart(item.s)
    ELSE IF is_valid_domain(item.s) THEN {item.s}
    ELSE ClashOrUrl(item.s)

\* one item of data['domains'] or of any other list value
YamlPlainItem(item) == IF item.isstr /\ is_valid_domain(item.s) THEN {item.s} ELSE {}

K_payload == "payload"

K_rules == "rules"

K_domains == "domains"

HasList(map, k) == k \in DOMAIN map /\ map[k].islist

\* the structured pass of extract_domains_from_yaml over safe_load's result
YamlDataPass(data) ==
    IF data.kind = "dict"
    THEN LET map == data.map IN
         IF HasList(map, K_payload) THEN UnionOver(map[K_payload].items, YamlRuleItem)
         ELSE IF HasList(map, K_rules) THEN UnionOver(map[K_rules].items, YamlRuleItem)
         ELSE IF HasList(map, K_domains) THEN UnionOver(map[K_domains].items, YamlPlainItem)
         ELSE UNION {UnionOver(map[k].items, YamlPlainItem) : k \in DOMAIN map}
    ELSE IF data.kind = "list" THEN UnionOver(data.items, YamlRuleItem)
    ELSE {}

extract_domains_from_yaml_DataOnly(text, data) ==
    IF data = YamlError THEN YamlTextPass(text) ELSE YamlDataPass(data)

extract_domains_from_yaml(text, data) == YamlTextPass(text) \cup YamlDataPass(data)

DnsmasqLine(line) ==
    IF line = <<>> \/ StartsWith(line, <<"#">>) THEN {}
    ELSE IF DNSMASQ_PATTERN(line) # <<>> THEN AddIfValid(DNSMASQ_PATTERN(line))
    ELSE AddIfValid(line)

extract_domains_from_dnsmasq(text) == UnionOver(StrippedLines(text), DnsmasqLine)

AdblockLine(line) ==
    IF line = <<>> \/ StartsWith(line, <<"!">>) \/ StartsWith(line, <<"#">>) THEN {}
    ELSE IF ADBLOCK_PATTERN(line) # <<>> THEN AddIfValid(ADBLOCK_PATTERN(line))
    ELSE IF is_valid_domain(line) THEN {line}
    ELSE IF URL_PATTERN(line) # <<>> THEN AddIfValid(URL_PATTERN(line))
    ELSE {}

extract_domains_from_adblock(text) == UnionOver(StrippedLines(text), AdblockLine)

S_pipe_http == <<"|","h","t","t","p">>

\* one line of the decoded GFWList
GfwLine(line) ==
    IF line = <<>> \/ StartsWith(line, <<"!">>) \/ StartsWith(line, <<"[">>)
       \/ StartsWith(line, <<"#">>) THEN {}
    ELSE IF StartsWith(line, <<"|", "|">>) /\ Contains(line, <<"^">>)
         THEN AddIfValid(SubSeq(line, 3, FirstIndex(line, {"^"}) - 1))
    ELSE IF StartsWith(line, S_pipe_http) THEN AddIfValid(Netloc(Tail(line)))
    ELSE IF ~Contains(line, <<"/">>) /\ Contains(line, <<".">>) /\ ~StartsWith(line, <<".">>)
         THEN AddIfValid(line)
    ELSE IF URL_PATTERN(line) # <<>> THEN AddIfValid(URL_PATTERN(line))
    ELSE {}

\* one line of the raw content once decoding has failed
GfwRawLine(line) ==
    IF line = <<>> \/ StartsWith(line, <<"#">>) \/ StartsWith(line, <<"!">>) THEN {}
    ELSE AddIfValid(line)

\* the extractor with a failed decoding giving nothing
extract_domains_from_gfwlist_NoFallback(text) ==
    LET dec == b64decode(text) IN
    IF dec.ok THEN UnionOver(StrippedLines(Utf8Ignore(dec.bytes, 1)), GfwLine)
    ELSE {}

extract_domains_from_gfwlist(text) ==
    LET dec == b64decode(text) IN
    IF dec.ok THEN UnionOver(StrippedLines(Utf8Ignore(dec.bytes, 1)), GfwLine)
    ELSE UnionOver(StrippedLines(text), GfwRawLine)

S_NAME == <<"N","A","M","E",":">>

\* the lines of ls from i on; header_passed as the loop holds it
RECURSIVE PlainLines(_, _, _)
PlainLines(ls, i, header_passed) ==
    IF i > Len(ls) THEN {}
    ELSE LET line == ls[i] IN
         IF line = <<>> \/ StartsWith(line, <<"#">>) THEN PlainLines(ls, i + 1, header_passed)
         ELSE IF ~header_passed /\ Contains(line, S_NAME) THEN PlainLines(ls, i + 1, TRUE)
         ELSE IF StartsWith(line, <<".">>)
              THEN (IF DOMAIN_PREFIX_PATTERN(line) # <<>>
                    THEN AddIfValid(DOMAIN_PREFIX_PATTERN(line)) ELSE {})
                   \cup PlainLines(ls, i + 1, header_passed)
         ELSE IF is_valid_domain(line) THEN {line} \cup PlainLines(ls, i + 1, header_passed)
         ELSE (IF URL_PATTERN(line) # <<>> THEN AddIfValid(URL_PATTERN(line)) ELSE {})
              \cup PlainLines(ls, i + 1, header_passed)

extract_domains_from_plain_text(text) == PlainLines(StrippedLines(text), 1, FALSE)

S_DOMAIN_MARK == <<"D","O","M","A","I","N",":">>

RECURSIVE Bm7Lines(_, _, _)
Bm7Lines(ls, i, header_section) ==
    IF i > Len(ls) THEN {}
    ELSE LET line == ls[i] IN
         IF line = <<>> THEN Bm7Lines(ls, i + 1, header_section)
         ELSE IF StartsWith(line, <<"#">>) THEN Bm7Lines(ls, i + 1, header_section)
         ELSE IF header_section /\ Contains(line, S_DOMAIN_MARK) THEN Bm7Lines(ls, i + 1, FALSE)
         ELSE IF header_section THEN Bm7Lines(ls, i + 1, header_section)
         ELSE IF StartsWith(line, <<".">>)
              THEN AddIfValid(Tail(line)) \cup Bm7Lines(ls, i + 1, header_section)
         ELSE AddIfValid(line) \cup Bm7Lines(ls, i + 1, header_section)

extract_domains_from_blackmatrix7_domain_txt(text) == Bm7Lines(StrippedLines(text), 1, TRUE)

\* the text of a file as read_custom_domains sees it, line by line
CustomLine(line) ==
    IF line = <<>> \/ StartsWith(line, <<"#">>) THEN {}
    ELSE IF is_valid_domain(line) THEN {line}
    ELSE IF (\A k \in DOMAIN line : line[k] \in Alpha) /\ Len(line) <= 5 THEN {line}
    ELSE IF StartsWith(line, <<".">>) /\ is_valid_domain(Tail(line)) THEN {Tail(line)}
    ELSE {}

read_custom_domains(file) ==
    IF ~file.exists THEN {}
    ELSE LET ls == FileLines(file.text) IN UNION {CustomLine(Strip(ls[i])) : i \in DOMAIN ls}

-----------------------------------------------------------------------------
(* extract_domains_from_file *)

S_proxy_domain == <<"p","r","o","x","y","_","d","o","m","a","i","n",".","t","x","t">>

S_chinamax_domain == <<"c","h","i","n","a","m","a","x","_","d","o","m","a","i","n",".","t","x","t">>

S_china_domain == <<"c","h","i","n","a","_","d","o","m","a","i","n",".","t","x","t">>

S_yaml == <<".","y","a","m","l">>

S_yml == <<".","y","m","l">>

S_conf == <<".","c","o","n","f">>

S_gfwlist == <<"g","f","w","l","i","s","t",".","t","x","t">>

S_list == <<".","l","i","s","t">>


ProbeThreshold == 10

Last(seq) == seq[Len(seq)]

\* file_url.split('/')[-1].lower()
FileName(file_url) == ToLower(Last(Split(file_url, "/")))

\* the chain with the ".list" test moved ahead of the suffix tests
RouteOf_ListFirst(file_url) ==
    LET file_name == FileName(file_url)
        lower == ToLower(file_url)
    IN IF Contains(lower, S_proxy_domain) THEN "blackmatrix7"
       ELSE IF Contains(lower, S_chinamax_domain) \/ Contains(lower, S_china_domain)
            THEN "blackmatrix7"
       ELSE IF Contains(file_name, S_list) THEN "plain"
       ELSE IF EndsWith(file_name, S_yaml) \/ EndsWith(file_name, S_yml) THEN "yaml"
       ELSE IF EndsWith(file_name, S_conf) THEN "dnsmasq"
       ELSE IF file_name = S_gfwlist THEN "gfwlist"
       ELSE "unknown"

\* the branch of the if/elif chain that file_url selects
RouteOf(file_url) ==
    LET file_name == FileName(file_url)
        lower == ToLower(file_url)
    IN IF Contains(lower, S_proxy_domain) THEN "blackmatrix7"
       ELSE IF Contains(lower, S_chinamax_domain) \/ Contains(lower, S_china_domain)
            THEN "blackmatrix7"
       ELSE IF EndsWith(file_name, S_yaml) \/ EndsWith(file_name, S_yml) THEN "yaml"
       ELSE IF EndsWith(file_name, S_conf) THEN "dnsmasq"
       ELSE IF file_name = S_gfwlist THEN "gfwlist"
       ELSE IF Contains(file_name, S_list) THEN "plain"
       ELSE "unknown"

\* the else branch without the test on the number of plain-text domains
ProbeAll_NoThreshold(text, data) ==
    extract_domains_from_plain_text(text) \cup extract_domains_from_yaml(text, data)
        \cup extract_domains_from_dnsmasq(text)
        \cup extract_domains_from_adblock(text)
        \cup extract_domains_from_gfwlist(text)

\* the else branch: plain text first, the other four formats when it found
\* fewer than ProbeThreshold domains
ProbeAll(text, data) ==
    LET text_domains == extract_domains_from_plain_text(text)
        domains == {} \cup text_domains
    IN IF Cardinality(domains) < ProbeThreshold
       THEN domains \cup extract_domains_from_yaml(text, data)
                    \cup extract_domains_from_dnsmasq(text)
                    \cup extract_domains_from_adblock(text)
                    \cup extract_domains_from_gfwlist(text)
       ELSE domains

extract_domains_from_file(text, file_url, data) ==
    LET r == RouteOf(file_url) IN
    CASE r = "blackmatrix7" -> extract_domains_from_blackmatrix7_domain_txt(text)
      [] r = "yaml" -> extract_domains_from_yaml(text, data)
      [] r = "dnsmasq" -> extract_domains_from_dnsmasq(text)
      [] r = "gfwlist" -> extract_domains_from_gfwlist(text)
      [] r = "plain" -> extract_domains_from_plain_text(text)
      [] r = "unknown" -> ProbeAll(text, data)

-----------------------------------------------------------------------------
(* generate_config.py: read_custom_domain_dns *)

\* [x.strip() for x in s.split(sep) if x.strip()]
StrippedParts(s, sep) ==
    LET NonEmpty(x) == x # <<>>
        ps == Split(s, sep)
    IN SelectSeq([i \in DOMAIN ps |-> Strip(ps[i])], NonEmpty)

\* the groups that one stripped line appends to grouped_rules: none or one
DnsLineGroups(line) ==
    IF line = <<>> \/ StartsWith(line, <<"#">>) THEN <<>>
    ELSE IF ~Contains(line, S_COLON) THEN <<>>
    ELSE LET c == FirstIndex(line, {":"})
             domains_part == Strip(SubSeq(line, 1, c - 1))
             dns_servers == StrippedParts(SubSeq(line, c + 1, Len(line)), ",")
         IN IF domains_part = <<>> \/ dns_servers = <<>> THEN <<>>
            ELSE << <<StrippedParts(domains_part, "/"), dns_servers>> >>

\* grouped_rules after the lines ls[1..n]
RECURSIVE DnsGroups(_, _)
DnsGroups(ls, n) ==
    IF n = 0 THEN <<>> ELSE DnsGroups(ls, n - 1) \o DnsLineGroups(Strip(ls[n]))

\* domain_dns_map with the first group of a domain kept
DnsMapOf_FirstWins(groups) ==
    LET Holds(i, d) == \E k \in DOMAIN groups[i][1] : groups[i][1][k] = d
        keys == UNION {Range(groups[i][1]) : i \in DOMAIN groups}
    IN [d \in keys |-> groups[Min({i \in DOMAIN groups : Holds(i, d)})][2]]

\* domain_dns_map of the groups: a later group overwrites an earlier one
DnsMapOf(groups) ==
    LET Holds(i, d) == \E k \in DOMAIN groups[i][1] : groups[i][1][k] = d
        keys == UNION {Range(groups[i][1]) : i \in DOMAIN groups}
    IN [d \in keys |-> groups[Max({i \in DOMAIN groups : Holds(i, d)})][2]]

read_custom_domain_dns(file) ==
    IF ~file.exists THEN [grouped_rules |-> <<>>, domain_dns_map |-> <<>>]
    ELSE LET ls == FileLines(file.text)
             groups == DnsGroups(ls, Len(ls))
         IN [grouped_rules |-> groups, domain_dns_map |-> DnsMapOf(groups)]

-----------------------------------------------------------------------------
(* generate_config.py: the rule files *)

\* ord(c)
Ord(c) ==
    IF \E i \in DOMAIN AsciiTable : AsciiTable[i] = c THEN IndexOf(AsciiTable, c) - 1
    ELSE CASE c = "<NEL>" -> 133 [] c = "<NBSP>" -> 160 [] c = "<UL>" -> 233
           [] c = "<UD>" -> 1635 [] c = "<LS>" -> 8232 [] c = "<PS>" -> 8233
           [] OTHER -> 9731

\* a < b for two str
StrLess(a, b) ==
    \E k \in 1..Len(b) :
        /\ k <= Len(a) + 1
        /\ \A j \in 1..(k - 1) : a[j] = b[j]
        /\ (k = Len(a) + 1 \/ Ord(a[k]) < Ord(b[k]))

Sorted_Descending(S) ==
    [i \in 1..Cardinality(S) |-> CHOOSE x \in S : Cardinality({y \in S : StrLess(x, y)}) = i - 1]

\* sorted(S) for a set of str
Sorted(S) ==
    [i \in 1..Cardinality(S) |-> CHOOSE x \in S : Cardinality({y \in S : StrLess(y, x)}) = i - 1]

\* fnmatch.fnmatch(name, pat) from name[i] and pat[j] on, for patterns whose
\* only special characters are "*" and "?"
RECURSIVE FnMatchFrom(_, _, _, _)
FnMatchFrom(name, i, pat, j) ==
    IF j > Len(pat) THEN i > Len(name)
    ELSE IF pat[j] = "*"
         THEN \E k \in i..(Len(name) + 1) : FnMatchFrom(name, k, pat, j + 1)
    ELSE /\ i <= Len(name)
         /\ (pat[j] = "?" \/ pat[j] = name[i])
         /\ FnMatchFrom(name, i + 1, pat, j + 1)

fnmatch(name, pat) == FnMatchFrom(name, 1, pat, 1)

wildcard_matches_GlobOnly(domain, patterns) ==
    \E n \in DOMAIN patterns :
        LET pat == patterns[n] IN
        IF Contains(pat, <<"*">>) THEN fnmatch(domain, pat)
        ELSE domain = pat

wildcard_matches(domain, patterns) ==
    \E n \in DOMAIN patterns :
        LET pat == patterns[n] IN
        IF StartsWith(pat, <<"*", ".">>)
        THEN LET base == DropFirst(pat, 2) IN
             domain = base \/ EndsWith(domain, <<".">> \o base)
        ELSE IF Contains(pat, <<"*">>) THEN fnmatch(domain, pat)
        ELSE domain = pat

filter_domains(domains, custom_patterns) ==
    {d \in domains : ~wildcard_matches(d, custom_patterns)}

\* "filter_domains(...) if custom_patterns else ..."
Filtered(domains, custom_patterns) ==
    IF custom_patterns # <<>> THEN filter_domains(domains, custom_patterns) ELSE domains

\* the items of the defaultdict: no key for an empty set, one key otherwise
group_domains_by_dns(domain_set, dns_list) ==
    IF domain_set = {} THEN <<>> ELSE << <<dns_list, Sorted(domain_set)>> >>

\* an entry of config_lines and the part of the generator that appended it
Line(sec, text) == [sec |-> sec, line |-> text]

\* a comment line; its Chinese text and the counts in it are not modelled
Comment == <<"#", " ", "<U>">>

\* "#" + "=" * 50
Bar == <<"#">> \o [i \in 1..50 |-> "="]

\* f"[/{domain}/]{' '.join(dns_list)}"
SingleRule(domain, dns_list) == <<"[", "/">> \o domain \o <<"/", "]">> \o Join(dns_list, <<" ">>)

\* f"[/{'/'.join(domains)}/] {' '.join(dns_list)}"
GroupedRule(domains, dns_list) ==
    <<"[", "/">> \o Join(domains, <<"/">>) \o <<"/", "]", " ">> \o Join(dns_list, <<" ">>)

\* the title, the default upstream servers
HeadLines(default_dns, has_custom) ==
    <<Line("head", Comment), Line("head", Comment), Line("head", Comment)>>
    \o (IF has_custom THEN <<Line("head", Comment)>> ELSE <<>>)
    \o <<Line("head", <<>>), Line("head", Comment)>>
    \o [i \in DOMAIN default_dns |-> Line("head", default_dns[i])]
    \o <<Line("head", <<>>)>>

SectionTitle(sec) == <<Line(sec, Bar), Line(sec, Comment), Line(sec, Bar)>>

\* the custom section, one rule for each item of sorted(map.items())
CustomSingleLines(custom_domain_dns_map) ==
    IF DOMAIN custom_domain_dns_map = {} THEN <<>>
    ELSE LET keys == Sorted(DOMAIN custom_domain_dns_map) IN
         SectionTitle("custom")
         \o [i \in DOMAIN keys |-> Line("custom", SingleRule(keys[i], custom_domain_dns_map[keys[i]]))]
         \o <<Line("custom", <<>>)>>

\* the custom section, one rule for each group
CustomGroupedLines(custom_domain_dns_grouped) ==
    IF custom_domain_dns_grouped = <<>> THEN <<>>
    ELSE SectionTitle("custom")
         \o [i \in DOMAIN custom_domain_dns_grouped |->
                Line("custom", GroupedRule(custom_domain_dns_grouped[i][1],
                                           custom_domain_dns_grouped[i][2]))]
         \o <<Line("custom", <<>>)>>

\* the feed section of the two single generators: title, the comment on the
\* excluded domains, one rule for each domain in sorted order
FeedSingleLines(domains, filtered, dns, has_custom) ==
    LET list == Sorted(filtered) IN
    <<Line("feed", Bar), Line("feed", Comment)>>
    \o (IF has_custom /\ Cardinality(domains) # Cardinality(filtered)
        THEN <<Line("feed", Comment)>> ELSE <<>>)
    \o <<Line("feed", Bar)>>
    \o [i \in DOMAIN list |-> Line("feed", SingleRule(list[i], dns))]

\* the feed section of the two grouped generators
FeedGroupedLines(filtered, dns) ==
    LET grouped == group_domains_by_dns(filtered, dns) IN
    SectionTitle("feed")
    \o [i \in DOMAIN grouped |-> Line("feed", GroupedRule(grouped[i][2], grouped[i][1]))]

generate_whitelist_config_single(cn, foreign, cn_dns, foreign_dns, custom_domain_dns_map, custom_patterns) ==
    HeadLines(foreign_dns, DOMAIN custom_domain_dns_map # {})
    \o CustomSingleLines(custom_domain_dns_map)
    \o FeedSingleLines(cn, Filtered(cn, custom_patterns), cn_dns, DOMAIN custom_domain_dns_map # {})

generate_blacklist_config_single(cn, foreign, cn_dns, foreign_dns, custom_domain_dns_map, custom_patterns) ==
    HeadLines(cn_dns, DOMAIN custom_domain_dns_map # {})
    \o CustomSingleLines(custom_domain_dns_map)
    \o FeedSingleLines(foreign, Filtered(foreign, custom_patterns), foreign_dns,
                       DOMAIN custom_domain_dns_map # {})

generate_whitelist_config_grouped(cn, foreign, cn_dns, foreign_dns, custom_domain_dns_grouped, custom_domain_dns_map, custom_patterns) ==
    HeadLines(foreign_dns, custom_domain_dns_grouped # <<>>)
    \o CustomGroupedLines(custom_domain_dns_grouped)
    \o FeedGroupedLines(Filtered(cn, custom_patterns), cn_dns)

generate_blacklist_config_grouped(cn, foreign, cn_dns, foreign_dns, custom_domain_dns_grouped, custom_domain_dns_map, custom_patterns) ==
    HeadLines(cn_dns, custom_domain_dns_grouped # <<>>)
    \o CustomGroupedLines(custom_domain_dns_grouped)
    \o FeedGroupedLines(Filtered(foreign, custom_patterns), foreign_dns)

batch_size == 5000

Batches_FullOnly(list, size) ==
    [k \in 1..(Len(list) \div size) |-> SubSeq(list, (k - 1) * size + 1, k * size)]

\* list[i:i+size] for i in range(0, len(list), size)
Batches(list, size) ==
    [k \in 1..((Len(list) + size - 1) \div size) |->
        SubSeq(list, (k - 1) * size + 1, IF k * size < Len(list) THEN k * size ELSE Len(list))]

\* the custom section of generate_blacklist_config_grouped_by_5000 when the
\* groups it iterates over are the keys of a dict, as in main: a key of two
\* or more characters gives domains = key[0] and dns_list = key[1], and the
\* join of a one-character str is that character; a shorter key is reported
\* on the standard output and gives no line
CustomKeyLines(keys) ==
    IF keys = <<>> THEN <<>>
    ELSE LET long == SelectSeq(keys, LAMBDA k : Len(k) >= 2) IN
         SectionTitle("custom")
         \o [i \in DOMAIN long |-> Line("custom", GroupedRule(<<<<long[i][1]>>>>, <<<<long[i][2]>>>>))]
         \o <<Line("custom", <<>>)>>

\* the generator as main calls it: custom_domain_dns_grouped is the dict
\* custom_domain_dns_map, given here by its keys in insertion order, and
\* foreign is a set
generate_blacklist_config_grouped_by_5000(cn, foreign, cn_dns, foreign_dns, custom_keys, custom_patterns) ==
    LET filtered == Filtered(foreign, custom_patterns)
        batches == Batches(Sorted(filtered), batch_size)
    IN HeadLines(cn_dns, custom_keys # <<>>)
       \o CustomKeyLines(custom_keys)
       \o <<Line("feed", Bar), Line("feed", Comment)>>
       \o (IF custom_keys # <<>> /\ Cardinality(foreign) # Cardinality(filtered)
           THEN <<Line("feed", Comment)>> ELSE <<>>)
       \o <<Line("feed", Bar)>>
       \o [i \in DOMAIN batches |-> Line("feed", GroupedRule(batches[i], foreign_dns))]

-----------------------------------------------------------------------------
(* Files *)

\* a file argument: not given (None), given but absent, given and holding text
NoFile == [given |-> FALSE, exists |-> FALSE, text |-> <<>>]

MissingFile == [given |-> TRUE, exists |-> FALSE, text |-> <<>>]

File(text) == [given |-> TRUE, exists |-> TRUE, text |-> text]

\* os.path.exists(path)
Exists(fs, path) == path \in DOMAIN fs

\* the file at path as the readers take it
FileAt(fs, path) == IF Exists(fs, path) THEN File(fs[path]) ELSE MissingFile

\* the stripped lines of a text file that are neither empty nor a comment
DataLines(text) ==
    LET IsData(l) == l # <<>> /\ ~StartsWith(l, <<"#">>)
        ls == FileLines(text)
    IN SelectSeq([i \in DOMAIN ls |-> Strip(ls[i])], IsData)

\* extract_domains.read_dns_servers
read_dns_servers(file, default_servers) ==
    IF ~file.exists THEN default_servers
    ELSE IF DataLines(file.text) # <<>> THEN DataLines(file.text) ELSE default_servers

\* generate_config.read_domains_from_file
read_domains_from_file(file) ==
    IF file.exists THEN Range(DataLines(file.text)) ELSE {}

\* the strings that save_domains_to_file writes, in order
save_domains_to_file(domains) ==
    LET list == Sorted(domains) IN [i \in DOMAIN list |-> list[i] \o <<"\n">>]

-----------------------------------------------------------------------------
(* domain_to_quanx.py *)

S_dist == <<"d","i","s","t">>

\* the three names that main passes to extract_domains
P_cn == <<"c","n","_","d","o","m","a","i","n","s",".","t","x","t">>

P_foreign == <<"d","i","s","t","/","f","o","r","e","i","g","n","_","d","o","m","a","i","n","s",".","t","x","t">>

P_custom_foreign == <<"c","o","n","f","i","g","/","c","u","s","t","o","m","_","f","o","r","e","i","g","n","_","d","o","m","a","i","n","s",".","t","x","t">>

S_DIRECT == <<"D","I","R","E","C","T">>

S_proxy == <<"p","r","o","x","y">>

S_host_suffix == <<"h","o","s","t","-","s","u","f","f","i","x",","," ">>

S_quanx_whitelist == <<"q","u","a","n","x","_","w","h","i","t","e","l","i","s","t",".","t","x","t">>

S_foreign_quanx_rules == <<"f","o","r","e","i","g","n","_","q","u","a","n","x","_","r","u","l","e","s",".","t","x","t">>

\* os.path.join(a, b) on a POSIX system
PathJoin(a, b) ==
    IF StartsWith(b, <<"/">>) THEN b
    ELSE IF a = <<>> \/ EndsWith(a, <<"/">>) THEN a \o b
    ELSE a \o <<"/">> \o b

\* os.path.join("dist" if "dist" in file_path else "", file_path)
FullPath(file_path) ==
    PathJoin(IF Contains(file_path, S_dist) THEN S_dist ELSE <<>>, file_path)

\* re.sub(r'^https?://', '', raw_line)
DropScheme(raw_line) ==
    IF StartsWith(raw_line, S_http \o S_css) THEN DropFirst(raw_line, 7)
    ELSE IF StartsWith(raw_line, S_http \o <<"s">> \o S_css) THEN DropFirst(raw_line, 8)
    ELSE raw_line

\* re.split(r'[/?#]', domain)[0]
HostPart(domain) ==
    LET k == FirstIndex(domain, {"/", "?", "#"}) IN
    IF k = 0 THEN domain ELSE SubSeq(domain, 1, k - 1)

QuanxLine_FullHost(raw_line) ==
    IF raw_line = <<>> \/ StartsWith(raw_line, <<"#">>) \/ StartsWith(raw_line, <<";">>) THEN {}
    ELSE LET parts == Split(HostPart(DropScheme(raw_line)), ".") IN
         IF Len(parts) >= 2 THEN {HostPart(DropScheme(raw_line))}
         ELSE {}

\* what one stripped line adds to the set
QuanxLine(raw_line) ==
    IF raw_line = <<>> \/ StartsWith(raw_line, <<"#">>) \/ StartsWith(raw_line, <<";">>) THEN {}
    ELSE LET parts == Split(HostPart(DropScheme(raw_line)), ".") IN
         IF Len(parts) >= 2 THEN {parts[Len(parts) - 1] \o <<".">> \o parts[Len(parts)]}
         ELSE {}

\* domain_to_quanx.extract_domains(file_path, policy) on the file system fs
extract_domains(fs, file_path) ==
    IF ~Exists(fs, FullPath(file_path)) THEN {}
    ELSE LET ls == FileLines(fs[FullPath(file_path)]) IN
         UNION {QuanxLine(Strip(ls[i])) : i \in DOMAIN ls}

generate_quanx_rules(domains, policy) ==
    LET list == Sorted(domains) IN
    [i \in DOMAIN list |-> S_host_suffix \o list[i] \o <<",", " ">> \o policy]

\* the files after save_rules(domains, policy, output_file): two comment
\* lines, an empty line, the rules; nothing is written for an empty set
save_rules(out, domains, policy, output_file) ==
    IF domains = {} THEN out
    ELSE LET path == PathJoin(S_dist, output_file)
             lines == <<Comment, Comment, <<>>>> \o generate_quanx_rules(domains, policy)
         IN [p \in DOMAIN out \cup {path} |-> IF p = path THEN lines ELSE out[p]]

-----------------------------------------------------------------------------
(* Inputs *)

\* the sequences of at most n elements of S
SeqsUpTo(S, n) == UNION {[1..k -> S] : k \in 0..n}

S_NL == <<"\n">>

\* lines a feed or a custom file may hold
LineCorpus ==
    <<<<"a",".","c","o","m">>,  \* a.com
      <<".","b",".","o","r","g">>,  \* .b.org
      <<".",".","c",".","n","e","t">>,  \* ..c.net
      <<"D","O","M","A","I","N",":">>,  \* DOMAIN:
      <<"D","O","M","A","I","N",",",".","d",".","i","o">>,  \* DOMAIN,.d.io
      <<"d","o","m","a","i","n","-","s","u","f","f","i","x",":"," ","e",".","c","n">>,  \* domain-suffix: e.cn
      <<"|","|","f",".","c","o","m","^">>,  \* ||f.com^
      <<"|","|",".","g",".","c","o","m","^">>,  \* ||.g.com^
      <<"s","e","r","v","e","r","=","/","h",".","c","o","m","/","1",".","1",".","1",".","1">>,  \* server=/h.com/1.1.1.1
      <<"s","e","r","v","e","r","=","/",".","i",".","c","o","m","/","x">>,  \* server=/.i.com/x
      <<"h","t","t","p",":","/","/","j",".","c","o","m","/","p">>,  \* http://j.com/p
      <<"|","h","t","t","p","s",":","/","/","k",".","c","o","m","/">>,  \* |https://k.com/
      <<"1",".","2",".","3",".","4">>,  \* 1.2.3.4
      <<"#","l",".","c","o","m">>,  \* #l.com
      <<"!","m",".","c","o","m">>,  \* !m.com
      <<"N","A","M","E",":"," ","x">>,  \* NAME: x
      <<"n","-",".","c","o","m">>,  \* n-.com
      <<"o",".","c","o","m",".">>,  \* o.com.
      <<"D","O","M","A","I","N",",","x"," ","h","t","t","p",":","/","/","p",".","c","o","m">>,  \* DOMAIN,x http://p.com
      <<" ","q",".","c","o","m","\t">>,  \*  q.com\t
      <<"<U>",".","c","o","m">>,  \* <U>.com
      <<"[","r",".","c","o","m","]">>,  \* [r.com]
      <<"c","n">>,  \* cn
      <<"f","H","x","0","L","m","5","l","d","F","4","K">>,  \* fHx0Lm5ldF4K
      <<"d","y","5","v","c","m","c","=">>,  \* dy5vcmc=
      <<"#"," ","D","O","M","A","I","N",":"," ","1">>,  \* # DOMAIN: 1
      <<"f","o","o",".","b","a","r",".","c","o","m">>>>  \* foo.bar.com

MaxLines == 2

\* the texts of at most MaxLines lines of the corpus
Texts == {Join(ls, S_NL) : ls \in SeqsUpTo(Range(LineCorpus), MaxLines)}

\* strings that safe_load may hand back as items
YamlItemPool ==
    {StrItem(LineCorpus[1]), StrItem(LineCorpus[2]), StrItem(LineCorpus[5]),
     StrItem(LineCorpus[6]), StrItem(LineCorpus[13]),
     StrItem(LineCorpus[1] \o S_NL), NonStrItem}

MaxYamlItems == 2

YamlKeys == {K_payload, K_rules, K_domains, "other"}

YamlValues == {NonListValue} \cup {ListValue(<<it>>) : it \in YamlItemPool}

\* what safe_load may return when it finds a container
YamlContainers ==
    {YamlList(items) : items \in SeqsUpTo(YamlItemPool, MaxYamlItems)}
    \cup {YamlDict([k \in {key} |-> v]) : key \in YamlKeys, v \in YamlValues}
    \cup {YamlDict([k \in {K_payload, key} |-> IF k = K_payload THEN NonListValue ELSE v]) :
             key \in YamlKeys \ {K_payload}, v \in YamlValues \ {NonListValue}}

\* a feed document: its text and what safe_load makes of it
Doc(text, data) == [text |-> text, yaml |-> data]

\* every text with a parse that finds no container, and the one-line texts
\* with every container
Docs ==
    {Doc(t, y) : t \in Texts, y \in {YamlError, YamlScalar}}
    \cup {Doc(LineCorpus[i], y) : i \in 1..2, y \in YamlContainers}

\* arguments of is_valid_domain
CandAlphabet == {"a", "1", "-", "."}

MaxCandLen == 6

ShortCands == SeqsUpTo(CandAlphabet, MaxCandLen)

\* a name of n characters made of labels of 63 letters
LongName(n) == [i \in 1..n |-> IF i % 64 = 0 THEN "." ELSE "a"]

\* names around the length limit, and names with a label of 63 and of 64
LongCands ==
    {LongName(n) : n \in (MaxDomainLen - 2)..(MaxDomainLen + 1)}
    \cup {[i \in 1..n |-> "a"] \o <<".", "a">> : n \in 62..65}

QuadGroups == {<<"1">>, <<"2", "5">>, <<"9", "9", "9">>}

\* dotted quads, bare and with a leading dot
QuadCands ==
    LET quads == {Join(q, <<".">>) : q \in [1..4 -> QuadGroups]} IN
    quads \cup {<<".">> \o q : q \in quads}

Candidates == ShortCands \cup LongCands \cup QuadCands

\* sources of process_sources: a YAML feed, an unlabelled feed, a dnsmasq feed
SourceIds ==
    <<<<"h","t","t","p",":","/","/","h","/","a",".","y","a","m","l">>,  \* http://h/a.yaml
      <<"h","t","t","p",":","/","/","h","/","b">>,  \* http://h/b
      <<"c",".","c","o","n","f">>>>  \* c.conf

SourcePool == Range(SourceIds)

MaxSources == 2

FeedTextA == Join(<<LineCorpus[1], LineCorpus[2], LineCorpus[7]>>, S_NL)

FeedTextB == Join(<<LineCorpus[9], LineCorpus[5]>>, S_NL)

\* what a download gives: nothing (failure or empty body) or a document
RemoteDocs ==
    {Doc(<<>>, YamlScalar), Doc(FeedTextA, YamlScalar),
     Doc(FeedTextB, YamlList(<<StrItem(LineCorpus[2])>>))}

CustomFiles ==
    {NoFile, MissingFile, File(LineCorpus[1]),
     File(Join(<<LineCorpus[23], LineCorpus[2], LineCorpus[14]>>, S_NL))}

\* source identifiers made of at most MaxIdPieces pieces
IdPieces ==
    <<<<"/">>,  \* /
      <<"a">>,  \* a
      <<".","l","i","s","t">>,  \* .list
      <<".","y","a","m","l">>,  \* .yaml
      <<".","Y","M","L">>,  \* .YML
      <<".","c","o","n","f">>,  \* .conf
      <<"g","f","w","l","i","s","t",".","t","x","t">>,  \* gfwlist.txt
      <<"P","r","o","x","y","_","D","o","m","a","i","n",".","t","x","t">>,  \* Proxy_Domain.txt
      <<"C","h","i","n","a","M","a","x","_","D","o","m","a","i","n",".","t","x","t">>,  \* ChinaMax_Domain.txt
      <<"c","h","i","n","a","_","d","o","m","a","i","n",".","t","x","t">>,  \* china_domain.txt
      <<".","t","x","t">>>>  \* .txt

MaxIdPieces == 3

RouteIds == {Join(ps, <<>>) : ps \in SeqsUpTo(Range(IdPieces), MaxIdPieces)} \ {<<>>}

\* ten plain domains a0.com .. a9.com, one per line
TenDomains == [i \in 1..10 |-> <<"a", DigitChars[i], ".", "c", "o", "m">>]

\* texts around the probing threshold: 9, 10 and 11 plain domains, each
\* followed by two Adblock rules; and three plain domains with two rules
ProbeTexts ==
    {Join(SubSeq(TenDomains, 1, n) \o extra, S_NL) :
        n \in {3, ProbeThreshold - 1, ProbeThreshold},
        extra \in {<<LineCorpus[7], LineCorpus[8]>>, <<LineCorpus[1], LineCorpus[7]>>,
                   <<LineCorpus[12], <<"|", "|">> \o TenDomains[1] \o <<"^">>>>}}

\* lines a custom DNS file may hold
DnsLineCorpus ==
    <<<<"a",".","c","o","m","/","b",".","c","o","m",":"," ","1",".","1",".","1",".","1",","," ","8",".","8",".","8",".","8">>,  \* a.com/b.com: 1.1.1.1, 8.8.8.8
      <<"a",".","c","o","m",":"," ","9",".","9",".","9",".","9">>,  \* a.com: 9.9.9.9
      <<"*",".","c",".","o","r","g"," ",":"," ","h","t","t","p","s",":","/","/","d",".","n","s","/","q",","," ">>,  \* *.c.org : https://d.ns/q, 
      <<"e",".","c","o","m"," ","1",".","1",".","1",".","1">>,  \* e.com 1.1.1.1
      <<":"," ","1",".","1",".","1",".","1">>,  \* : 1.1.1.1
      <<"f",".","c","o","m",":"," ",","," ">>,  \* f.com: , 
      <<"#"," ","g",".","c","o","m",":"," ","1",".","1",".","1",".","1">>,  \* # g.com: 1.1.1.1
      <<"b","a","d","_","n","a","m","e","!",":"," ","1",".","1",".","1",".","1">>,  \* bad_name!: 1.1.1.1
      <<"c","n",":","2",".","2",".","2",".","2">>,  \* cn:2.2.2.2
      <<"/"," ",":"," ","1",".","1",".","1",".","1">>,  \* / : 1.1.1.1
      <<" ","h",".","c","o","m","/","/","b",".","c","o","m"," ",":","1",".","1",".","1",".","1",",",",","8",".","8",".","8",".","8">>,  \*  h.com//b.com :1.1.1.1,,8.8.8.8
      <<>>>>  \* 

MaxDnsLines == 2

\* the custom DNS files of at most MaxDnsLines lines of the corpus
DnsTexts == {Join(ls, S_NL) : ls \in SeqsUpTo(Range(DnsLineCorpus), MaxDnsLines)}

\* lines of the files that domain_to_quanx reads
QxLineCorpus ==
    <<<<"f","o","o",".","b","a","r",".","c","o","m">>,  \* foo.bar.com
      <<"h","t","t","p","s",":","/","/","a",".","b",".","c",".","o","r","g","/","p","?","q">>,  \* https://a.b.c.org/p?q
      <<"l","o","c","a","l","h","o","s","t">>,  \* localhost
      <<";"," ","c",".","c","o","m">>,  \* ; c.com
      <<"b",".","c","o","m","#","x">>,  \* b.com#x
      <<"d",".","n","e","t",".">>>>  \* d.net.

MaxQxLines == 2

QxTexts == {Join(ls, S_NL) : ls \in SeqsUpTo(Range(QxLineCorpus), MaxQxLines)}

\* where the files of domain_to_quanx may lie: as documented, under the
\* working directory, under dist/dist
QxPaths ==
    <<<<"d","i","s","t","/","c","n","_","d","o","m","a","i","n","s",".","t","x","t">>,  \* dist/cn_domains.txt
      <<"c","n","_","d","o","m","a","i","n","s",".","t","x","t">>,  \* cn_domains.txt
      <<"d","i","s","t","/","f","o","r","e","i","g","n","_","d","o","m","a","i","n","s",".","t","x","t">>,  \* dist/foreign_domains.txt
      <<"d","i","s","t","/","d","i","s","t","/","f","o","r","e","i","g","n","_","d","o","m","a","i","n","s",".","t","x","t">>,  \* dist/dist/foreign_domains.txt
      <<"c","o","n","f","i","g","/","c","u","s","t","o","m","_","f","o","r","e","i","g","n","_","d","o","m","a","i","n","s",".","t","x","t">>>>  \* config/custom_foreign_domains.txt

\* the file systems with some of the paths of QxPaths: one text in the custom
\* file, one text in the others
QxFileSystems ==
    {[p \in P |-> IF p = P_custom_foreign THEN u ELSE t] :
        P \in SUBSET Range(QxPaths), t \in QxTexts, u \in {<<>>, QxLineCorpus[1], QxLineCorpus[5]}}

-----------------------------------------------------------------------------
(* Specifications *)

IdleValidator == cand = <<>> /\ verdict = FALSE /\ verdictDot = FALSE

IdleExtractor == content = <<>> /\ parsed = YamlScalar /\ op = "" /\ result = {}

IdleDispatcher == source_id = <<>> /\ route = ""

IdleAggregator ==
    /\ sources = <<>> /\ remote = <<>> /\ custom = NoFile
    /\ idx = 0 /\ all_domains = {} /\ raised = ""

IdleBatch == foreign_domains_list = <<>> /\ emitted = <<>>

IdleMain ==
    /\ IdleBatch
    /\ files = <<>> /\ opened = <<>>
    /\ cn_domains = {} /\ foreign_domains = {} /\ foreign_main = {} /\ custom_domains = {}
    /\ grouped_rules = <<>> /\ domain_dns_map = <<>> /\ outputs = <<>>

(* is_valid_domain applied to cand, then to "." + cand *)

InitValid ==
    /\ pc = "v_call"
    /\ cand \in Candidates
    /\ verdict = FALSE /\ verdictDot = FALSE
    /\ IdleExtractor /\ IdleDispatcher /\ IdleAggregator /\ IdleMain

Validate ==
    /\ pc = "v_call"
    /\ verdict' = is_valid_domain(cand)
    /\ pc' = "v_dot"
    /\ UNCHANGED <<batchVars, cand, verdictDot, content, parsed, op, result, source_id, route,
                   sources, remote, custom, idx, all_domains, raised, mainVars>>

ValidateDotted ==
    /\ pc = "v_dot"
    /\ verdictDot' = is_valid_domain(<<".">> \o cand)
    /\ pc' = "v_done"
    /\ UNCHANGED <<batchVars, cand, verdict, content, parsed, op, result, source_id, route,
                   sources, remote, custom, idx, all_domains, raised, mainVars>>

NextValid == Validate \/ ValidateDotted

SpecValid == InitValid /\ [][NextValid]_vars

(* one extractor applied to one document *)

InitExtract ==
    \/ /\ pc = "x_call"
       /\ \E d \in Docs : content = d.text /\ parsed = d.yaml
       /\ op = "" /\ result = {}
       /\ IdleValidator /\ IdleDispatcher /\ IdleAggregator /\ IdleMain
    \/ /\ pc = "v_call"
       /\ cand \in QuadCands
       /\ verdict = FALSE /\ verdictDot = FALSE
       /\ IdleExtractor /\ IdleDispatcher /\ IdleAggregator /\ IdleMain

Extracted(name, domains) ==
    /\ pc = "x_call"
    /\ op' = name
    /\ result' = domains
    /\ pc' = "x_done"
    /\ UNCHANGED <<batchVars, cand, verdict, verdictDot, content, parsed, source_id, route,
                   sources, remote, idx, all_domains, raised, mainVars>>

ExtractYaml ==
    Extracted("yaml", extract_domains_from_yaml(content, parsed)) /\ UNCHANGED custom

ExtractDnsmasq ==
    Extracted("dnsmasq", extract_domains_from_dnsmasq(content)) /\ UNCHANGED custom

ExtractAdblock ==
    Extracted("adblock", extract_domains_from_adblock(content)) /\ UNCHANGED custom

ExtractGfwlist ==
    Extracted("gfwlist", extract_domains_from_gfwlist(content)) /\ UNCHANGED custom

ExtractPlainText ==
    Extracted("plain", extract_domains_from_plain_text(content)) /\ UNCHANGED custom

ExtractBlackmatrix7 ==
    Extracted("blackmatrix7", extract_domains_from_blackmatrix7_domain_txt(content))
    /\ UNCHANGED custom

\* read_custom_domains on a file that holds the text, or on a missing file
ReadCustom ==
    \E f \in {File(content), MissingFile} :
        /\ custom' = f
        /\ Extracted("custom", read_custom_domains(f))

\* domain_to_quanx.extract_domains on a file that holds the text
ExtractQuanx ==
    Extracted("quanx", extract_domains([p \in {P_custom_foreign} |-> content], P_custom_foreign))
    /\ UNCHANGED custom

NextExtract ==
    \/ ExtractYaml \/ ExtractDnsmasq \/ ExtractAdblock \/ ExtractGfwlist
    \/ ExtractPlainText \/ ExtractBlackmatrix7 \/ ReadCustom \/ ExtractQuanx
    \/ Validate \/ ValidateDotted

SpecExtract == InitExtract /\ [][NextExtract]_vars

(* extract_domains_from_file(content, file_url) *)

InitDispatch ==
    /\ pc = "d_call"
    /\ \/ /\ source_id \in RouteIds
          /\ \E d \in {Doc(FeedTextA, YamlScalar), Doc(FeedTextB, YamlError)} :
                content = d.text /\ parsed = d.yaml
       \/ /\ source_id \in {<<"u">>, <<"a", "/", "b", ".", "t", "x", "t">>}
          /\ \E d \in Docs \cup {Doc(t, YamlScalar) : t \in ProbeTexts} :
                content = d.text /\ parsed = d.yaml
    /\ op = "" /\ result = {} /\ route = ""
    /\ IdleValidator /\ IdleAggregator /\ IdleMain

Dispatch ==
    /\ pc = "d_call"
    /\ route' = RouteOf(source_id)
    /\ result' = extract_domains_from_file(content, source_id, parsed)
    /\ op' = "file"
    /\ pc' = "d_done"
    /\ UNCHANGED <<batchVars, cand, verdict, verdictDot, content, parsed, source_id,
                   sources, remote, custom, idx, all_domains, raised, mainVars>>

NextDispatch == Dispatch

SpecDispatch == InitDispatch /\ [][NextDispatch]_vars

(* process_sources of generate_config.py ("gc") and of extract_domains.py ("ed") *)

Init ==
    /\ op \in {"gc", "ed"}
    /\ pc = "loop"
    /\ sources \in SeqsUpTo(SourcePool, MaxSources)
    /\ remote \in [SourcePool -> RemoteDocs]
    /\ custom \in (IF op = "gc" THEN CustomFiles ELSE {NoFile})
    /\ idx = 1
    /\ all_domains = {}
    /\ raised = ""
    /\ content = <<>> /\ parsed = YamlScalar /\ result = {}
    /\ IdleValidator /\ IdleDispatcher /\ IdleMain

\* all_domains = domains
Update_Overwrite(all, domains) == domains

\* all_domains.update(domains)
Update(all, domains) == all \cup domains

\* one turn of the loop of generate_config.process_sources
GcSource ==
    /\ op = "gc" /\ pc = "loop" /\ idx <= Len(sources)
    /\ LET source == sources[idx]
           text == remote[source].text
       IN all_domains' = IF text # <<>>
                         THEN Update(all_domains,
                                     extract_domains_from_file(text, source, remote[source].yaml))
                         ELSE all_domains
    /\ idx' = idx + 1
    /\ UNCHANGED <<batchVars, pc, cand, verdict, verdictDot, content, parsed, op, result,
                   source_id, route, sources, remote, custom, raised, mainVars>>

\* after the loop: the custom file, then "return all_domains"
GcCustom ==
    /\ op = "gc" /\ pc = "loop" /\ idx > Len(sources)
    /\ all_domains' = IF custom.given /\ custom.exists
                      THEN Update(all_domains, read_custom_domains(custom))
                      ELSE all_domains
    /\ result' = all_domains'
    /\ pc' = "done"
    /\ UNCHANGED <<batchVars, cand, verdict, verdictDot, content, parsed, op, source_id, route,
                   sources, remote, custom, idx, raised, mainVars>>

\* one turn of the loop of extract_domains.process_sources; the else branch
\* formats the name url, which is bound only under "if __name__ ==
\* '__main__'" and so is unbound whenever the function is called
EdSource ==
    /\ op = "ed" /\ pc = "loop" /\ idx <= Len(sources)
    /\ LET source == sources[idx]
           text == remote[source].text
       IN IF text # <<>>
          THEN /\ all_domains' = Update(all_domains,
                                        extract_domains_from_file(text, source, remote[source].yaml))
               /\ idx' = idx + 1
               /\ UNCHANGED <<pc, raised>>
          ELSE /\ raised' = "NameError"
               /\ pc' = "raised"
               /\ UNCHANGED <<idx, all_domains>>
    /\ UNCHANGED <<batchVars, cand, verdict, verdictDot, content, parsed, op, result,
                   source_id, route, sources, remote, custom, mainVars>>

\* "return all_domains"
EdReturn ==
    /\ op = "ed" /\ pc = "loop" /\ idx > Len(sources)
    /\ result' = all_domains
    /\ pc' = "done"
    /\ UNCHANGED <<batchVars, cand, verdict, verdictDot, content, parsed, op, source_id, route,
                   sources, remote, custom, idx, all_domains, raised, mainVars>>

Next == GcSource \/ GcCustom \/ EdSource \/ EdReturn

Spec == Init /\ [][Next]_vars

(* read_custom_domain_dns applied to one file *)

InitDns ==
    /\ pc = "dns_call"
    /\ content \in DnsTexts
    /\ parsed = YamlScalar /\ op = "" /\ result = {}
    /\ IdleValidator /\ IdleDispatcher /\ IdleAggregator /\ IdleMain

\* read_custom_domain_dns on a file that holds the text, or on a missing file
ReadCustomDomainDns ==
    /\ pc = "dns_call"
    /\ \E f \in {File(content), MissingFile} :
          /\ custom' = f
          /\ grouped_rules' = read_custom_domain_dns(f).grouped_rules
          /\ domain_dns_map' = read_custom_domain_dns(f).domain_dns_map
    /\ op' = "dns"
    /\ pc' = "dns_done"
    /\ UNCHANGED <<batchVars, cand, verdict, verdictDot, content, parsed, result, source_id, route,
                   sources, remote, idx, all_domains, raised, files, opened, cn_domains,
                   foreign_domains, foreign_main, custom_domains, outputs>>

NextDns == ReadCustomDomainDns

SpecDns == InitDns /\ [][NextDns]_vars

(* domain_to_quanx.main *)

InitQuanx ==
    /\ pc = "qx_cn"
    /\ files \in QxFileSystems
    /\ opened = <<>>
    /\ cn_domains = {} /\ foreign_domains = {} /\ foreign_main = {} /\ custom_domains = {}
    /\ grouped_rules = <<>> /\ domain_dns_map = <<>> /\ outputs = <<>>
    /\ op = "quanx"
    /\ content = <<>> /\ parsed = YamlScalar /\ result = {}
    /\ IdleValidator /\ IdleDispatcher /\ IdleAggregator /\ IdleBatch

\* cn_domains = extract_domains("cn_domains.txt", "DIRECT"); save_rules(...)
QxCn ==
    /\ pc = "qx_cn"
    /\ cn_domains' = extract_domains(files, P_cn)
    /\ opened' = Append(opened, FullPath(P_cn))
    /\ outputs' = save_rules(outputs, cn_domains', S_DIRECT, S_quanx_whitelist)
    /\ pc' = "qx_foreign"
    /\ UNCHANGED <<batchVars, cand, verdict, verdictDot, content, parsed, op, result, source_id, route,
                   sources, remote, custom, idx, all_domains, raised, files,
                   foreign_domains, foreign_main, custom_domains, grouped_rules, domain_dns_map>>

\* foreign_main = extract_domains("dist/foreign_domains.txt", "proxy")
QxForeignMain ==
    /\ pc = "qx_foreign"
    /\ foreign_main' = extract_domains(files, P_foreign)
    /\ foreign_domains' = foreign_domains \cup foreign_main'
    /\ opened' = Append(opened, FullPath(P_foreign))
    /\ pc' = "qx_custom"
    /\ UNCHANGED <<batchVars, cand, verdict, verdictDot, content, parsed, op, result, source_id, route,
                   sources, remote, custom, idx, all_domains, raised, files,
                   cn_domains, custom_domains, grouped_rules, domain_dns_map, outputs>>

\* custom_domains = extract_domains("config/custom_foreign_domains.txt", "proxy")
QxCustom ==
    /\ pc = "qx_custom"
    /\ custom_domains' = extract_domains(files, P_custom_foreign)
    /\ foreign_domains' = foreign_domains \cup custom_domains'
    /\ opened' = Append(opened, FullPath(P_custom_foreign))
    /\ pc' = "qx_stats"
    /\ UNCHANGED <<batchVars, cand, verdict, verdictDot, content, parsed, op, result, source_id, route,
                   sources, remote, custom, idx, all_domains, raised, files,
                   cn_domains, foreign_main, grouped_rules, domain_dns_map, outputs>>

\* the statistics line divides by len(foreign_main) + len(custom_domains)
QxStats ==
    /\ pc = "qx_stats"
    /\ IF Cardinality(foreign_main) + Cardinality(custom_domains) = 0
       THEN raised' = "ZeroDivisionError" /\ pc' = "raised"
       ELSE raised' = raised /\ pc' = "qx_save"
    /\ UNCHANGED <<batchVars, cand, verdict, verdictDot, content, parsed, op, result, source_id, route,
                   sources, remote, custom, idx, all_domains, mainVars>>

\* "if foreign_domains: save_rules(...)", then the end of main
QxSave ==
    /\ pc = "qx_save"
    /\ outputs' = IF foreign_domains # {}
                  THEN save_rules(outputs, foreign_domains, S_proxy, S_foreign_quanx_rules)
                  ELSE outputs
    /\ pc' = "qx_done"
    /\ UNCHANGED <<batchVars, cand, verdict, verdictDot, content, parsed, op, result, source_id, route,
                   sources, remote, custom, idx, all_domains, raised, files, opened,
                   cn_domains, foreign_domains, foreign_main, custom_domains,
                   grouped_rules, domain_dns_map>>

NextQuanx == QxCn \/ QxForeignMain \/ QxCustom \/ QxStats \/ QxSave

SpecQuanx == InitQuanx /\ [][NextQuanx]_vars

(***************************************************************************)
(* generate_config.main                                                     *)
(***************************************************************************)

\* os.path.join('config', 'cn_dns.txt') and the other paths of main
P_cn_dns == <<"c","o","n","f","i","g","/","c","n","_","d","n","s",".","t","x","t">>

P_foreign_dns == <<"c","o","n","f","i","g","/","f","o","r","e","i","g","n","_","d","n","s",".","t","x","t">>

P_custom_domain_dns == <<"c","o","n","f","i","g","/","c","u","s","t","o","m","_","d","o","m","a","i","n","_","d","n","s",".","t","x","t">>

P_custom_cn == <<"c","o","n","f","i","g","/","c","u","s","t","o","m","_","c","n","_","d","o","m","a","i","n","s",".","t","x","t">>

F_gn == <<"d","i","s","t","/","g","n",".","t","x","t">>

F_gn_grouped == <<"d","i","s","t","/","g","n","_","g","r","o","u","p","e","d",".","t","x","t">>

F_gw == <<"d","i","s","t","/","g","w",".","t","x","t">>

F_gw_grouped == <<"d","i","s","t","/","g","w","_","g","r","o","u","p","e","d",".","t","x","t">>

F_cn_domains == <<"d","i","s","t","/","c","n","_","d","o","m","a","i","n","s",".","t","x","t">>

F_foreign_domains == <<"d","i","s","t","/","f","o","r","e","i","g","n","_","d","o","m","a","i","n","s",".","t","x","t">>

default_cn_dns == <<<<"h","t","t","p","s",":","/","/","d","o","h",".","p","u","b","/","d","n","s","-","q","u","e","r","y">>, <<"h","t","t","p","s",":","/","/","d","n","s",".","a","l","i","d","n","s",".","c","o","m","/","d","n","s","-","q","u","e","r","y">>>>

default_foreign_dns == <<<<"h","t","t","p","s",":","/","/","1",".","1",".","1",".","1","/","d","n","s","-","q","u","e","r","y">>, <<"h","t","t","p","s",":","/","/","8",".","8",".","8",".","8","/","d","n","s","-","q","u","e","r","y">>>>

\* the concatenation of a sequence of sequences
RECURSIVE Flatten(_)
Flatten(seqs) == IF seqs = <<>> THEN <<>> ELSE Head(seqs) \o Flatten(Tail(seqs))

\* list(custom_domain_dns_map.keys()): the keys in the order of their first
\* insertion, that is of their first occurrence in the groups
DictKeys(groups) ==
    LET all == Flatten([g \in DOMAIN groups |-> groups[g][1]])
        first == {k \in DOMAIN all : \A j \in 1..(k - 1) : all[j] # all[k]}
    IN [n \in 1..Cardinality(first) |-> all[Kth(first, n)]]

\* the file f with the text lines written to the path
WriteFile(f, path, lines) ==
    [p \in DOMAIN f \cup {path} |-> IF p = path THEN lines ELSE f[p]]

\* a line whose key is a pattern for fnmatch: 'x*.org: 8.8.4.4'
DnsLineGlob == <<"x","*",".","o","r","g",":"," ","8",".","8",".","4",".","4">>

\* what config/custom_domain_dns.txt may hold
ConfigDnsTexts ==
    {DnsLineCorpus[1], DnsLineGlob,
     Join(<<DnsLineCorpus[1], DnsLineCorpus[3]>>, <<"\n">>),
     Join(<<DnsLineCorpus[3], DnsLineCorpus[9]>>, <<"\n">>)}

CnFeedPool == {<<"a",".","c","o","m">>, <<"x",".","a",".","c","o","m">>, <<"b",".","c",".","o","r","g">>}

ForeignFeedPool == {<<"b",".","c","o","m">>, <<"c",".","o","r","g">>, <<"x","c",".","o","r","g">>, <<"a","-","b",".","c","o","m">>}

MaxFeedSize == 2

\* what the downloads of process_sources may add up to
FeedSets(pool) == {S \in SUBSET pool : Cardinality(S) <= MaxFeedSize}

\* the working directories of main: each input file is missing or holds one
\* text
ConfigFileSystems ==
    {[p \in P |-> CASE p = P_custom_domain_dns -> t
                    [] p = P_cn_dns -> <<"#"," ","d","n","s","\n","9",".","9",".","9",".","9","\n">>
                    [] p = P_custom_cn -> <<"x","c",".","o","r","g","\n","x",".","a",".","c","o","m","\n">>
                    [] OTHER -> <<"b",".","c","o","m","\n">>] :
        P \in SUBSET {P_custom_domain_dns, P_cn_dns, P_custom_cn, P_custom_foreign},
        t \in ConfigDnsTexts}

\* the local variables of main that are functions of the input files
cn_dns == read_dns_servers(FileAt(files, P_cn_dns), default_cn_dns)

foreign_dns == read_dns_servers(FileAt(files, P_foreign_dns), default_foreign_dns)

custom_patterns == DictKeys(grouped_rules)

custom_cn_domains_set == read_domains_from_file(FileAt(files, P_custom_cn))

foreign_domains_for_blacklist == foreign_domains \ custom_cn_domains_set

InitConfig ==
    /\ pc = "m_read"
    /\ files \in ConfigFileSystems
    /\ opened = <<>>
    /\ cn_domains = {} /\ foreign_domains = {} /\ foreign_main = {} /\ custom_domains = {}
    /\ grouped_rules = <<>> /\ domain_dns_map = <<>> /\ outputs = <<>>
    /\ op = "config"
    /\ content = <<>> /\ parsed = YamlScalar /\ result = {}
    /\ IdleValidator /\ IdleDispatcher /\ IdleAggregator /\ IdleBatch

\* read_custom_domain_dns(os.path.join('config', 'custom_domain_dns.txt'))
MainReadCustomDns ==
    /\ pc = "m_read"
    /\ LET r == read_custom_domain_dns(FileAt(files, P_custom_domain_dns)) IN
          /\ grouped_rules' = r.grouped_rules
          /\ domain_dns_map' = r.domain_dns_map
    /\ pc' = "m_sources"
    /\ UNCHANGED <<batchVars, cand, verdict, verdictDot, content, parsed, op, result, source_id, route,
                   sources, remote, custom, idx, all_domains, raised, files, opened,
                   cn_domains, foreign_domains, foreign_main, custom_domains, outputs>>

\* the two calls of process_sources: what the downloaded sources add up to,
\* and the entries of the custom file when it exists
MainProcessSources ==
    /\ pc = "m_sources"
    /\ \E cn \in FeedSets(CnFeedPool), foreign \in FeedSets(ForeignFeedPool) :
          /\ cn_domains' = cn \cup read_custom_domains(FileAt(files, P_custom_cn))
          /\ foreign_domains' = foreign \cup read_custom_domains(FileAt(files, P_custom_foreign))
    /\ pc' = "m_gn"
    /\ UNCHANGED <<batchVars, cand, verdict, verdictDot, content, parsed, op, result, source_id, route,
                   sources, remote, custom, idx, all_domains, raised, files, opened,
                   foreign_main, custom_domains, grouped_rules, domain_dns_map, outputs>>

\* what a step of main that leaves one file in dist does not change
MainKeeps ==
    UNCHANGED <<batchVars, cand, verdict, verdictDot, content, parsed, op, result, source_id, route,
                sources, remote, custom, idx, all_domains, raised, files, opened,
                cn_domains, foreign_domains, foreign_main, custom_domains,
                grouped_rules, domain_dns_map>>

\* whitelist_config_single, written to dist/gn.txt
MainWhitelistSingle ==
    /\ pc = "m_gn"
    /\ outputs' = WriteFile(outputs, F_gn,
          generate_whitelist_config_single(cn_domains, foreign_domains, cn_dns, foreign_dns,
                                           domain_dns_map, custom_patterns))
    /\ pc' = "m_gn_grouped"
    /\ MainKeeps

\* whitelist_config_grouped, written to dist/gn_grouped.txt
MainWhitelistGrouped ==
    /\ pc = "m_gn_grouped"
    /\ outputs' = WriteFile(outputs, F_gn_grouped,
          generate_whitelist_config_grouped(cn_domains, foreign_domains, cn_dns, foreign_dns,
              grouped_rules, domain_dns_map, custom_patterns))
    /\ pc' = "m_gw"
    /\ MainKeeps

\* blacklist_config_single, written to dist/gw.txt: main calls
\* generate_blacklist_config_grouped_by_5000 with the dict as the groups
MainBlacklist5000 ==
    /\ pc = "m_gw"
    /\ outputs' = WriteFile(outputs, F_gw,
          generate_blacklist_config_grouped_by_5000(cn_domains, foreign_domains_for_blacklist,
              cn_dns, foreign_dns, custom_patterns, custom_patterns))
    /\ pc' = "m_gw_grouped"
    /\ MainKeeps

\* blacklist_config_grouped, written to dist/gw_grouped.txt
MainBlacklistGrouped ==
    /\ pc = "m_gw_grouped"
    /\ outputs' = WriteFile(outputs, F_gw_grouped,
          generate_blacklist_config_grouped(cn_domains, foreign_domains_for_blacklist, cn_dns, foreign_dns,
              grouped_rules, domain_dns_map, custom_patterns))
    /\ pc' = "m_cn"
    /\ MainKeeps

\* "for domain in sorted(cn_domains): f.write(...)"
MainWriteCn ==
    /\ pc = "m_cn"
    /\ outputs' = WriteFile(outputs, F_cn_domains,
          [i \in 1..Cardinality(cn_domains) |-> Sorted(cn_domains)[i] \o <<"\n">>])
    /\ pc' = "m_foreign"
    /\ MainKeeps

\* "for domain in sorted(foreign_domains): f.write(...)"
MainWriteForeign ==
    /\ pc = "m_foreign"
    /\ outputs' = WriteFile(outputs, F_foreign_domains,
          [i \in 1..Cardinality(foreign_domains) |-> Sorted(foreign_domains)[i] \o <<"\n">>])
    /\ pc' = "m_done"
    /\ MainKeeps

\* the functions of the two modules that main does not call, called on the
\* sets of main
F_saved == <<"o","u","t","p","u","t","_","f","i","l","e">>

F_single == <<"b","l","a","c","k","l","i","s","t","_","s","i","n","g","l","e">>

CallSaveDomainsToFile ==
    /\ pc = "m_done"
    /\ \E S \in {cn_domains, foreign_domains} :
          outputs' = WriteFile(outputs, F_saved, save_domains_to_file(S))
    /\ pc' = "lib_done"
    /\ MainKeeps

CallBlacklistSingle ==
    /\ pc = "m_done"
    /\ outputs' = WriteFile(outputs, F_single,
          generate_blacklist_config_single(cn_domains, foreign_domains, cn_dns, foreign_dns,
              domain_dns_map, custom_patterns))
    /\ pc' = "lib_done"
    /\ MainKeeps

NextConfig ==
    \/ MainReadCustomDns \/ MainProcessSources
    \/ MainWhitelistSingle \/ MainWhitelistGrouped \/ MainBlacklist5000 \/ MainBlacklistGrouped
    \/ MainWriteCn \/ MainWriteForeign
    \/ CallSaveDomainsToFile \/ CallBlacklistSingle

SpecConfig == InitConfig /\ [][NextConfig]_vars

-----------------------------------------------------------------------------
(* The batch loop of generate_blacklist_config_grouped_by_5000 *)

Base36 == DigitChars \o LowerLetters

\* the i-th of the domain names 000.cn, 001.cn, ... , zzz.cn, which sorted()
\* puts in this order
DomainNo(i) ==
    <<Base36[((i \div 1296) % 36) + 1], Base36[((i \div 36) % 36) + 1], Base36[(i % 36) + 1],
      ".", "c", "n">>

\* sorted(foreign_domains_filtered) for the set of the first n names
SortedDomains(n) == [i \in 1..n |-> DomainNo(i)]

MaxFullBatches == 2

MaxSpill == 20

\* the lengths of the list: around each multiple of batch_size
BatchLengths ==
    {n \in {k * batch_size + d : k \in 0..MaxFullBatches, d \in (0 - MaxSpill)..MaxSpill} : n >= 0}

InitBatch ==
    /\ pc = "b_call"
    /\ \E n \in BatchLengths : foreign_domains_list = SortedDomains(n)
    /\ emitted = <<>>
    /\ op = "batches"
    /\ content = <<>> /\ parsed = YamlScalar /\ result = {}
    /\ files = <<>> /\ opened = <<>>
    /\ cn_domains = {} /\ foreign_domains = {} /\ foreign_main = {} /\ custom_domains = {}
    /\ grouped_rules = <<>> /\ domain_dns_map = <<>> /\ outputs = <<>>
    /\ IdleValidator /\ IdleDispatcher /\ IdleAggregator

\* "for i in range(0, len(foreign_domains_list), batch_size)": one rule line
\* for each slice
EmitBatches ==
    /\ pc = "b_call"
    /\ emitted' = Batches(foreign_domains_list, batch_size)
    /\ pc' = "b_done"
    /\ UNCHANGED <<foreign_domains_list, cand, verdict, verdictDot, content, parsed, op, result,
                   source_id, route, sources, remote, custom, idx, all_domains, raised, mainVars>>

NextBatch == EmitBatches

SpecBatch == InitBatch /\ [][NextBatch]_vars

-----------------------------------------------------------------------------
(* Properties *)

NoDots(d) ==
    d # <<>> /\ Head(d) # "." /\ d[Len(d)] # "." /\ ~Contains(d, <<".", ".">>)

ExtractorNames == {"yaml", "dnsmasq", "adblock", "gfwlist", "plain", "blackmatrix7"}

\* C1: whatever extractor ran on whatever content, every element of the
\* returned set is accepted by is_valid_domain and has no leading dot, no
\* trailing dot and no "..".
C1_ExtractedAreDomains ==
    (pc = "x_done" /\ op \in ExtractorNames)
        => \A d \in result : is_valid_domain(d) /\ NoDots(d)

\* a label of the grammar: 1 to 63 characters, alphanumeric at both ends,
\* alphanumeric or hyphen in between
IsLabel(l) ==
    /\ Len(l) >= 1 /\ Len(l) <= 63
    /\ l[1] \in Alnum /\ l[Len(l)] \in Alnum
    /\ \A k \in DOMAIN l : l[k] \in Alnum \cup {"-"}

\* s, less one leading dot, is two or more labels joined by dots
LabelGrammar(s) ==
    LET d == IF s # <<>> /\ Head(s) = "." THEN Tail(s) ELSE s
        labels == Split(d, ".")
    IN Len(labels) >= 2 /\ \A i \in DOMAIN labels : IsLabel(labels[i])

\* C2 (the "only if" half): a string that is_valid_domain accepts is, less
\* one leading dot, made of two or more labels of 1 to 63 characters that
\* begin and end with an alphanumeric character.
C2_AcceptedOnlyIfGrammar ==
    (pc \in {"v_dot", "v_done"} /\ verdict) => LabelGrammar(cand)

\* C3: when is_valid_domain accepts d it accepts "." + d as well, d of the
\* maximum length of 253 characters included.
C3_DotPrefixAccepted ==
    (pc = "v_done" /\ verdict) => verdictDot

\* s, less one leading dot, is four groups of 1 to 3 decimal digits joined
\* by dots
IsQuad(s) ==
    LET d == IF s # <<>> /\ Head(s) = "." THEN Tail(s) ELSE s
        groups == Split(d, ".")
    IN /\ Len(groups) = 4
       /\ \A i \in DOMAIN groups :
             /\ Len(groups[i]) \in 1..3
             /\ \A k \in DOMAIN groups[i] : groups[i][k] \in Digits

\* C4: is_valid_domain rejects every dotted quad, with or without a leading
\* dot, and no extractor (nor read_custom_domains) returns one.
C4_NoQuad ==
    /\ (pc \in {"v_dot", "v_done"} /\ IsQuad(cand)) => ~verdict
    /\ (pc = "v_done" /\ IsQuad(cand)) => ~verdictDot
    /\ pc = "x_done" => \A d \in result : ~IsQuad(d)

\* a dotted quad with its leading dot has been refused, although the label
\* grammar admits it
C4_Witness ==
    /\ pc = "v_done" /\ IsQuad(cand) /\ Head(cand) = "."
    /\ LabelGrammar(cand) /\ ~verdict /\ ~verdictDot

\* the text after the last "/" of id, in lower case
Basename(id) ==
    LET slashes == {i \in DOMAIN id : id[i] = "/"} IN
    ToLower(IF slashes = {} THEN id ELSE SubSeq(id, Max(slashes) + 1, Len(id)))

\* the extractor that the first rule of rules to hold selects
FirstRule(rules) ==
    IF \E i \in DOMAIN rules : rules[i][1]
    THEN rules[Min({i \in DOMAIN rules : rules[i][1]})][2]
    ELSE "unknown"

\* the rule order as claimed: two feed names, and ".list" anywhere in the id
ClaimedRoute(id) ==
    LET lower == ToLower(id) IN
    FirstRule(<<
        <<Contains(lower, S_proxy_domain) \/ Contains(lower, S_chinamax_domain), "blackmatrix7">>,
        <<EndsWith(lower, S_yaml) \/ EndsWith(lower, S_yml), "yaml">>,
        <<EndsWith(lower, S_conf), "dnsmasq">>,
        <<Basename(id) = S_gfwlist, "gfwlist">>,
        <<Contains(lower, S_list), "plain">> >>)

\* the rule order with three feed names, and ".list" in the basename
AmendedRoute(id) ==
    LET lower == ToLower(id) IN
    FirstRule(<<
        <<\E t \in {S_proxy_domain, S_chinamax_domain, S_china_domain} : Contains(lower, t),
          "blackmatrix7">>,
        <<EndsWith(lower, S_yaml) \/ EndsWith(lower, S_yml), "yaml">>,
        <<EndsWith(lower, S_conf), "dnsmasq">>,
        <<Basename(id) = S_gfwlist, "gfwlist">>,
        <<Contains(Basename(id), S_list), "plain">> >>)

\* what the extractor of a rule returns for the content
ResultOf(r, text, data) ==
    CASE r = "blackmatrix7" -> extract_domains_from_blackmatrix7_domain_txt(text)
      [] r = "yaml" -> extract_domains_from_yaml(text, data)
      [] r = "dnsmasq" -> extract_domains_from_dnsmasq(text)
      [] r = "gfwlist" -> extract_domains_from_gfwlist(text)
      [] r = "plain" -> extract_domains_from_plain_text(text)

\* C5 as stated: the rule is the first to match among (1) one of two
\* blackmatrix7 feed names in source_id, (2) .yaml/.yml ending, (3) .conf
\* ending, (4) basename gfwlist.txt, (5) ".list" in source_id, (6) unknown.
C5_ClaimedOrder ==
    pc = "d_done" =>
        /\ route = ClaimedRoute(source_id)
        /\ route # "unknown" => result = ResultOf(route, content, parsed)

\* C5 amended: the same order with three feed names in rule (1) and with
\* ".list" looked for in the basename in rule (5); the rule depends on
\* source_id alone, and the result is that of the selected extractor.
C5_AmendedOrder ==
    pc = "d_done" =>
        /\ route = AmendedRoute(source_id)
        /\ route # "unknown" => result = ResultOf(route, content, parsed)

\* an id with ".list" before the last "/" and none after it took the
\* unknown path
C5_Witness ==
    /\ pc = "d_done" /\ route = "unknown"
    /\ Contains(ToLower(source_id), S_list) /\ ~Contains(Basename(source_id), S_list)

\* C6: on the unknown path, fewer than 10 plain-text domains give the union
\* of the plain-text, YAML, dnsmasq, Adblock and GFWList results; 10 or more
\* give the plain-text result alone; the call returns in either case.
C6_Probing ==
    (pc = "d_done" /\ route = "unknown") =>
        LET plain == extract_domains_from_plain_text(content) IN
        /\ raised = ""
        /\ Cardinality(plain) < 10 =>
              result = plain \cup extract_domains_from_yaml(content, parsed)
                             \cup extract_domains_from_dnsmasq(content)
                             \cup extract_domains_from_adblock(content)
                             \cup extract_domains_from_gfwlist(content)
        /\ Cardinality(plain) >= 10 => result = plain

\* ten plain-text domains were returned alone although the Adblock probe
\* would have found another one
C6_Witness ==
    /\ pc = "d_done" /\ route = "unknown"
    /\ Cardinality(extract_domains_from_plain_text(content)) = 10
    /\ result = extract_domains_from_plain_text(content)
    /\ ~(extract_domains_from_adblock(content) \subseteq result)

\* C7: neither process_sources raises, whichever fetches fail.
C7_NeverRaises == raised = "" /\ pc # "raised"

\* the sources that yielded content
Fetched == {s \in Range(sources) : remote[s].text # <<>>}

CustomEntries == IF custom.given /\ custom.exists THEN read_custom_domains(custom) ELSE {}

\* C8: generate_config.process_sources returns the union, over the set of
\* sources with content, of the dispatcher's results, together with the
\* entries of the custom file; order and repetition of sources do not count.
C8_UnionOfSources ==
    (op = "gc" /\ pc = "done") =>
        result = UNION {extract_domains_from_file(remote[s].text, s, remote[s].yaml) :
                            s \in Fetched} \cup CustomEntries

\* two different sources with different results were merged, the second
\* listed first, and a custom entry that a source yields too is in the result
C8_Witness ==
    /\ op = "gc" /\ pc = "done" /\ Len(sources) = 2
    /\ sources[1] = SourceIds[2] /\ sources[2] = SourceIds[1]
    /\ Fetched = Range(sources)
    /\ remote[sources[1]] # remote[sources[2]]
    /\ \E d \in CustomEntries :
          d \in extract_domains_from_file(remote[sources[1]].text, sources[1],
                                          remote[sources[1]].yaml)

\* C9: every element that read_custom_domains returns is a valid domain
\* without a leading dot, or an alphabetic token of at most 5 characters.
C9_CustomEntries ==
    (pc = "x_done" /\ op = "custom") =>
        \A d \in result :
            \/ is_valid_domain(d) /\ Head(d) # "."
            \/ Len(d) <= 5 /\ \A k \in DOMAIN d : d[k] \in Alpha

\* the lines of the raw text that are themselves valid domains, comments
\* apart
DirectDomainLines(text) ==
    LET ls == StrippedLines(text) IN
    {ls[i] : i \in {k \in DOMAIN ls :
                       /\ ls[k] # <<>> /\ ls[k][1] \notin {"#", "!"}
                       /\ is_valid_domain(ls[k])}}

DnsFileLines == LET ls == FileLines(custom.text) IN [i \in DOMAIN ls |-> Strip(ls[i])]

\* the text before and after the first colon of a line that has one
BeforeColon(l) == SubSeq(l, 1, FirstIndex(l, {":"}) - 1)

AfterColon(l) == SubSeq(l, FirstIndex(l, {":"}) + 1, Len(l))

\* the domains and the DNS endpoints that a line names
LineDomains(l) == StrippedParts(BeforeColon(l), "/")

LineDns(l) == StrippedParts(AfterColon(l), ",")

\* a line with a colon, a domain part and a DNS endpoint, comments apart
WellFormed(l) ==
    /\ l # <<>> /\ l[1] # "#"
    /\ \E k \in DOMAIN l : l[k] = ":"
    /\ Strip(BeforeColon(l)) # <<>>
    /\ LineDns(l) # <<>>

NamesAllowed ==
    \A i \in DOMAIN DnsFileLines :
        LET l == DnsFileLines[i] IN
        WellFormed(l) =>
            /\ LineDomains(l) # <<>>
            /\ \A d \in Range(LineDomains(l)) :
                  \/ is_valid_domain(d)
                  \/ (Len(d) <= 5 /\ \A k \in DOMAIN d : d[k] \in Alpha)
                  \/ (StartsWith(d, <<"*", ".">>) /\ is_valid_domain(DropFirst(d, 2)))

AllowedKey(d) ==
    \/ is_valid_domain(d)
    \/ (d # <<>> /\ Len(d) <= 5 /\ \A k \in DOMAIN d : d[k] \in Alpha)
    \/ (StartsWith(d, <<"*", ".">>) /\ is_valid_domain(DropFirst(d, 2)))

\* C12: every key of the returned map and every domain of every returned
\* group is a valid domain or an allow-listed token (a wildcard over a valid
\* domain is let through here as well).
C12_KeysValidated ==
    pc = "dns_done" =>
        /\ \A d \in DOMAIN domain_dns_map : AllowedKey(d)
        /\ \A g \in DOMAIN grouped_rules : \A k \in DOMAIN grouped_rules[g][1] :
              AllowedKey(grouped_rules[g][1][k])

(***************************************************************************)
(* domain_to_quanx.main: the empty foreign set and the opened paths         *)
(***************************************************************************)

\* C14: main of domain_to_quanx runs to completion without raising, in
\* particular when the main foreign file and the custom foreign file are
\* both missing or both yield no domain.
C14_EmptyIsNoException ==
    op = "quanx" => (raised = "" /\ pc # "raised")

\* the files that the module documents as its inputs
P_dist_cn == S_dist \o <<"/">> \o P_cn

DocumentedPaths == <<P_dist_cn, P_foreign, P_custom_foreign>>

\* C15: for each of the three names passed to extract_domains, the path
\* looked up and opened is the documented file: dist/cn_domains.txt,
\* dist/foreign_domains.txt and config/custom_foreign_domains.txt.
C15_DocumentedPathsOpened ==
    op = "quanx" =>
        \A k \in DOMAIN opened : opened[k] = DocumentedPaths[k]

(***************************************************************************)
(* The rule files of generate_config.main                                   *)
(***************************************************************************)

\* the domains that the text of a rule "[/d1/d2/.../] dns" names
RuleDomains(text) ==
    LET ends == {k \in 3..(Len(text) - 1) : text[k] = "/" /\ text[k + 1] = "]"} IN
    IF ends = {} THEN <<>> ELSE Split(SubSeq(text, 3, Min(ends) - 1), "/")

\* the domains named by the feed-derived rules of a written config, in the
\* order of the file
FeedDomains(path) ==
    LET ls == outputs[path]
        rules == {k \in DOMAIN ls : ls[k].sec = "feed" /\ StartsWith(ls[k].line, <<"[", "/">>)}
    IN Flatten([n \in 1..Cardinality(rules) |-> RuleDomains(ls[Kth(rules, n)].line)])

\* the custom key covers the domain: it is the domain, or it is "*.base" and
\* the domain is base or ends with ".base"
KeyCovers(key, d) ==
    \/ d = key
    \/ /\ StartsWith(key, <<"*", ".">>)
       /\ (d = DropFirst(key, 2) \/ EndsWith(d, <<".">> \o DropFirst(key, 2)))

MainRuleFiles == {F_gn, F_gn_grouped, F_gw, F_gw_grouped}

\* C13: in the four rule files that main writes, no feed-derived rule names a
\* domain that equals a key of the custom DNS map or that a key "*.base"
\* covers.
C13_CustomPrecedence ==
    op = "config" =>
        \A path \in DOMAIN outputs \cap MainRuleFiles :
            \A d \in Range(FeedDomains(path)) :
                \A key \in DOMAIN domain_dns_map : ~KeyCovers(key, d)

\* the four files are written; a wildcard key covers its own base in the
\* foreign set and a subdomain in the domestic set, and both sets keep a
\* domain that no key covers
C13_Witness ==
    /\ op = "config" /\ MainRuleFiles \subseteq DOMAIN outputs
    /\ \E key \in DOMAIN domain_dns_map :
          /\ StartsWith(key, <<"*", ".">>)
          /\ DropFirst(key, 2) \in foreign_domains_for_blacklist
          /\ \E d \in cn_domains : d # DropFirst(key, 2) /\ KeyCovers(key, d)
    /\ FeedDomains(F_gn) # <<>> /\ FeedDomains(F_gn_grouped) # <<>>
    /\ FeedDomains(F_gw) # <<>> /\ FeedDomains(F_gw_grouped) # <<>>

\* the sequence lists its elements in strictly ascending order of code points
StrictlyAscending(seq) ==
    \A i, j \in DOMAIN seq : i < j => StrLess(seq[i], seq[j])

\* the domains of a file that holds one domain and a newline in each write
WrittenDomains(path) ==
    [i \in DOMAIN outputs[path] |-> SubSeq(outputs[path][i], 1, Len(outputs[path][i]) - 1)]

DomainFiles == {F_cn_domains, F_foreign_domains, F_saved}

RuleFiles == MainRuleFiles \cup {F_single}

\* C20: the domains written by save_domains_to_file, those of cn_domains.txt
\* and foreign_domains.txt, and those of the feed-derived rules of every
\* generated config appear in strictly ascending order, each once; the
\* domain files hold exactly the elements of their set.
C20_SortedOnce ==
    op = "config" =>
        /\ \A path \in DOMAIN outputs \cap DomainFiles :
              /\ StrictlyAscending(WrittenDomains(path))
              /\ \A i \in DOMAIN outputs[path] : outputs[path][i][Len(outputs[path][i])] = "\n"
        /\ F_cn_domains \in DOMAIN outputs => Range(WrittenDomains(F_cn_domains)) = cn_domains
        /\ F_foreign_domains \in DOMAIN outputs =>
              Range(WrittenDomains(F_foreign_domains)) = foreign_domains
        /\ F_saved \in DOMAIN outputs =>
              Range(WrittenDomains(F_saved)) \in {cn_domains, foreign_domains}
        /\ \A path \in DOMAIN outputs \cap RuleFiles :
              /\ StrictlyAscending(FeedDomains(path))
              /\ Range(FeedDomains(path)) \subseteq cn_domains \cup foreign_domains

\* a library call has run after main, every file of main holds two domains
\* or more, and so does the file of the call
C20_Witness ==
    /\ op = "config" /\ pc = "lib_done"
    /\ Len(outputs[F_cn_domains]) >= 2 /\ Len(outputs[F_foreign_domains]) >= 2
    /\ \A path \in MainRuleFiles : Len(FeedDomains(path)) >= 2
    /\ \/ F_saved \in DOMAIN outputs /\ Len(outputs[F_saved]) >= 2
       \/ F_single \in DOMAIN outputs /\ Len(FeedDomains(F_single)) >= 2

(***************************************************************************)
(* Full host names, the blackmatrix7 header, the YAML line pass             *)
(***************************************************************************)

\* the last two dot-separated labels of a host with a dot in it
LastTwoLabels(h) ==
    LET dots == {k \in DOMAIN h : h[k] = "."} IN
    IF Cardinality(dots) >= 2
    THEN SubSeq(h, Kth(dots, Cardinality(dots) - 1) + 1, Len(h))
    ELSE h

\* the host parts of the lines of the text that the consumer reads: the
\* lines that are neither empty nor a comment, without scheme and path
QuanxHosts(text) ==
    LET ls == FileLines(text)
        kept == {i \in DOMAIN ls : Strip(ls[i]) # <<>> /\ Strip(ls[i])[1] \notin {"#", ";"}}
    IN {HostPart(DropScheme(Strip(ls[i]))) : i \in kept}

\* C16: the plain-text extractor keeps every direct valid line in full, and
\* the entries of domain_to_quanx.extract_domains are the last two labels of
\* the host parts that have a dot.
C16_FullNamesKept ==
    /\ (pc = "x_done" /\ op = "plain") =>
          \A i \in DOMAIN StrippedLines(content) :
              LET l == StrippedLines(content)[i] IN
              (is_valid_domain(l) /\ l[1] # ".") => l \in result
    /\ (pc = "x_done" /\ op = "quanx") =>
          result = {LastTwoLabels(h) : h \in {g \in QuanxHosts(content) : "." \in Range(g)}}

\* the plain-text extractor has returned a name of three labels in full
C16_Witness ==
    /\ pc = "x_done" /\ op = "plain"
    /\ \E d \in result :
          /\ Cardinality({k \in DOMAIN d : d[k] = "."}) = 2
          /\ \E i \in DOMAIN StrippedLines(content) : StrippedLines(content)[i] = d

\* C17: when a line holds the marker "DOMAIN:", a '#' line included, every
\* line after the first such line that is a direct valid domain, or a dot
\* before a valid domain, gives that domain.
C17_MarkerEndsHeader ==
    (pc = "x_done" /\ op = "blackmatrix7") =>
        LET ls == StrippedLines(content)
            marks == {i \in DOMAIN ls : Contains(ls[i], S_DOMAIN_MARK)}
        IN marks # {} =>
              \A j \in DOMAIN ls :
                  (j > Min(marks) /\ ls[j] # <<>>) =>
                      /\ (ls[j][1] # "." /\ is_valid_domain(ls[j])) => ls[j] \in result
                      /\ (ls[j][1] = "." /\ is_valid_domain(Tail(ls[j]))) => Tail(ls[j]) \in result

\* C18: in the line pass of the YAML extractor, a line with a DOMAIN or
\* DOMAIN-SUFFIX prefix whose text after the separator is not valid still
\* gives the valid domain of an embedded "http(s)://" URL.
C18_FallsThroughToUrl ==
    (pc = "x_done" /\ op = "yaml") =>
        \A i \in DOMAIN StrippedLines(content) :
            LET l == StrippedLines(content)[i]
                u == URL_PATTERN(l)
                HasPrefix(kw) == Contains(ToUpper(l), kw \o S_COMMA) \/ Contains(ToUpper(l), kw \o S_COLON)
            IN (/\ l # <<>> /\ l[1] # "#"
                /\ (HasPrefix(S_DOMAIN) \/ HasPrefix(S_DOMAIN_SUFFIX))
                /\ RulePart(l) = {}
                /\ u # <<>> /\ is_valid_domain(u))
               => u \in result

\* C19: the result of extract_domains_from_yaml holds the set of the line
\* pass, it is that set when safe_load fails, and the call does not raise.
C19_TextPassKept ==
    (pc = "x_done" /\ op = "yaml") =>
        /\ YamlTextPass(content) \subseteq result
        /\ parsed = YamlError => result = YamlTextPass(content)
        /\ raised = ""

\* safe_load has failed on a text whose line pass has found a domain
C19_Witness ==
    /\ pc = "x_done" /\ op = "yaml"
    /\ parsed = YamlError
    /\ result # {} /\ result = YamlTextPass(content)

(***************************************************************************)
(* The custom rules of gw.txt, the two results of read_custom_domain_dns,   *)
(* the batches                                                              *)
(***************************************************************************)

\* the texts of the rule lines of a section of a written config, in the
\* order of the file
RuleTexts(path, sec) ==
    LET ls == outputs[path]
        rules == {k \in DOMAIN ls : ls[k].sec = sec /\ StartsWith(ls[k].line, <<"[", "/">>)}
    IN [n \in 1..Cardinality(rules) |-> ls[Kth(rules, n)].line]

\* the DNS endpoints that the text of a rule "[/.../] dns1 dns2" names
RuleDns(text) ==
    LET ends == {k \in 3..(Len(text) - 1) : text[k] = "/" /\ text[k + 1] = "]"} IN
    IF ends = {} THEN <<>>
    ELSE Split(Strip(SubSeq(text, Min(ends) + 2, Len(text))), " ")

\* C21: every custom rule line of gw.txt names the domains of one entry of
\* the custom DNS file, followed by the DNS endpoints of that entry; no rule
\* is made of single characters of a domain string.
C21_CustomRulesAreEntries ==
    (op = "config" /\ F_gw \in DOMAIN outputs) =>
        \A n \in DOMAIN RuleTexts(F_gw, "custom") :
            LET text == RuleTexts(F_gw, "custom")[n] IN
            \E g \in DOMAIN grouped_rules :
                /\ RuleDomains(text) = grouped_rules[g][1]
                /\ RuleDns(text) = grouped_rules[g][2]

\* C22: the two results of read_custom_domain_dns agree: every domain of
\* every group is mapped to the DNS list of that group, also when the
\* domain is named on more than one line.
C22_MapAgreesWithGroups ==
    (op = "dns" /\ pc = "dns_done") =>
        \A g \in DOMAIN grouped_rules :
            \A k \in DOMAIN grouped_rules[g][1] :
                /\ grouped_rules[g][1][k] \in DOMAIN domain_dns_map
                /\ domain_dns_map[grouped_rules[g][1][k]] = grouped_rules[g][2]

\* C23: the batches of the sorted filtered list: each holds between 1 and
\* batch_size domains, only the last may hold fewer than batch_size, their
\* concatenation in order is the list, no domain is in two places, and an
\* empty list gives no batch.
C23_BatchesPartition ==
    (op = "batches" /\ pc = "b_done") =>
        LET list == foreign_domains_list
            all == Flatten(emitted)
        IN /\ \A k \in DOMAIN emitted : Len(emitted[k]) >= 1 /\ Len(emitted[k]) <= batch_size
           /\ \A k \in DOMAIN emitted : k < Len(emitted) => Len(emitted[k]) = batch_size
           /\ all = list
           /\ \A i \in 1..(Len(all) - 1) : StrLess(all[i], all[i + 1])
           /\ list = <<>> => emitted = <<>>
           /\ Len(list) <= MaxSpill => Sorted(Range(list)) = list

\* two full batches and a last one that is not full
C23_Witness ==
    /\ op = "batches" /\ pc = "b_done"
    /\ Len(emitted) = 3
    /\ Len(emitted[1]) = batch_size /\ Len(emitted[2]) = batch_size
    /\ Len(emitted[3]) >= 1 /\ Len(emitted[3]) < batch_size

=============================================================================
